---- MODULE Spec2Model ----
(***************************************************************************)
(* A model of the marketplace harvester (squid-sec/vscavator-fetch).       *)
(*                                                                         *)
(* Seven specifications share the variables of this module:                *)
(*   SpecExtract  the pure functions, applied to bounded inputs            *)
(*                (extract_release_metadata in its two variants,           *)
(*                extract_extension_metadata, the page counts, the         *)
(*                statistics and GitHub link scans, the upsert batches);   *)
(*   Spec         repeated runs of vscavator.main against a store that     *)
(*                keeps its rows between runs, with request failures and   *)
(*                crashes;                                                 *)
(*   SpecUpload   the archival uploader of s3.py and the releases upsert   *)
(*                of db.py acting on the persisted releases table and the  *)
(*                object store, and the validator main calls afterwards;   *)
(*   SpecValidate the consistency validator applied to any releases table  *)
(*                and any bucket;                                          *)
(*   SpecFetchExtensions  repeated runs of the script fetch_extensions.py: *)
(*                probe, crawl of the catalog pages, upserts;              *)
(*   SpecResume   Spec started on a store that holds the releases of the   *)
(*                catalog, none of them archived;                          *)
(*   SpecApp      repeated runs of app/vscavator.main: table set-up,       *)
(*                probe, crawl, upserts, and the database connections.     *)
(*                                                                         *)
(* Strings are TLC strings; the code's string concatenations are modelled  *)
(* with \o, so that a synthetic id is the concatenation the code builds.   *)
(***************************************************************************)
EXTENDS Integers, Sequences, FiniteSets, TLC

VARIABLES
    \* ---- SpecExtract ------------------------------------------------
    xin,        \* the raw input handed to an extraction function
    xout,       \* what the function returned (a record tagged with its name)
    \* ---- persisted store and object store (Spec, SpecUpload) --------
    db_extensions,  \* extensions table: extension_id -> row, for persisted ids
    db_publishers,  \* publishers table: publisher_id -> row, for persisted ids
    db_releases,    \* releases table: release_id -> row, for persisted ids
    s3_keys,        \* the object keys present in the bucket
    \* ---- the marketplace (Spec) --------------------------------------
    upstream,       \* extension_id -> its version list, newest first (<<>>: not published)
    \* ---- one run of vscavator.main (Spec) ----------------------------
    pc,             \* position of the run in main
    page_number,    \* next catalog page of get_all_extensions' loop
    extensions,     \* raw catalog entries accumulated by get_all_extensions
    extensions_df,  \* extract_extension_metadata(extensions)
    rel_i,          \* index into extensions_df of get_all_releases' loop
    all_releases,   \* get_all_releases' result so far: sequence of <<extension_id, raw list>>
    releases_df,    \* extract_release_metadata(all_releases)
    \* history of the run (not read by the program)
    db0,            \* the extensions table as it was when the run started
    requested,      \* extension ids a releases-detail request was issued for
    probe,          \* the answer to the total-count probe and what the probe function returned
    page_log,       \* the catalog page requests of the run, in order, with their outcome
    \* ---- one call of s3.upload_all_extensions_to_s3 (SpecUpload) -----
    upc,            \* position of the call
    combined_df,    \* the candidate rows handed to the call
    up_i,           \* index of the loop in progress
    unique_extensions, \* the call's set of extension ids already seen
    failed_extensions, \* the call's list of candidates whose first attempt failed
    cur,            \* the candidate whose object was put and whose flag is not yet written
    \* history of the call (not read by the program)
    attempts,       \* <<extension_id, version>> -> download requests issued by this call
    put_log,        \* the object keys put by this call
    first_ok,       \* candidates <<extension_id, version>> whose first attempt succeeded
    perm_failed,    \* candidates whose retry failed too
    ended,          \* how the last call ended: "none", "returned" (s3.py) or
                    \* "v_returned" (upload_releases.py)
    rerun,          \* TRUE in a call started over the candidates of a call that returned
                    \* with no candidate left failing
    reupserted,     \* TRUE once upsert_releases has met a row flagged uploaded
    \* ---- one run of app/vscavator.main (SpecApp) ----------------------
    connections     \* the database connections the process has opened, in order:
                    \* who opened each and whether it is still open

xvars == <<xin, xout>>
storevars == <<db_extensions, db_publishers, db_releases, s3_keys>>
mainvars == <<upstream, pc, page_number, extensions, extensions_df, rel_i,
              all_releases, releases_df, db0, requested, probe, page_log>>
upvars == <<upc, combined_df, up_i, unique_extensions, failed_extensions, cur,
            attempts, put_log, first_ok, perm_failed, ended, rerun, reupserted>>
appvars == <<connections>>
vars == <<xvars, storevars, mainvars, upvars, appvars>>

(***************************************************************************)
(* Bounds of the model.                                                    *)
(***************************************************************************)
MaxRaw == 2          \* longest raw version list of one extension (SpecExtract)
MaxBatch == 3        \* longest raw catalog batch (SpecExtract)
MaxCand == 2         \* most candidate rows handed to one uploader call (SpecUpload)
MaxUpsert == 2       \* most rows of one releases upsert (SpecUpload)

Range(s) == {s[i] : i \in 1..Len(s)}

SeqsUpTo(S, n) == UNION {[1..k -> S] : k \in 0..n}

(***************************************************************************)
(* Values of the upstream payloads.                                        *)
(***************************************************************************)
\* Extension ids and version strings of the raw inputs of SpecExtract.  They
\* are chosen so that two different (extension id, version) pairs concatenate
\* to the same synthetic id: "a" + "-" + "1-1" = "a-1" + "-" + "1".
RawExtIds == {"a", "a-1"}
RawVersions == {"1", "1-1"}
FlagStrings == {"validated", "validated, public"}
DateStrings == {"2024-12-01T00:00:00Z", "2024-12-10T00:00:00Z"}

\* dateutil.parser.isoparse on the date strings of the model.
isoparse(s) ==
    CASE s = "2024-12-01T00:00:00Z" -> [year |-> 2024, month |-> 12, day |-> 1]
      [] s = "2024-12-10T00:00:00Z" -> [year |-> 2024, month |-> 12, day |-> 10]
      [] OTHER -> [year |-> 1970, month |-> 1, day |-> 1]

\* str.split(", ") on the flag strings of the model.
SplitFlags(s) ==
    CASE s = "validated, public" -> <<"validated", "public">>
      [] OTHER -> <<s>>

\* A missing cell of a DataFrame (pandas NaN / NaT).
NaN == "NaN"
NaT == [year |-> 0, month |-> 0, day |-> 0]

\* One entry of a raw versions list, as the releases request returns it.
RawRelease(v, f, d) == [kind |-> "raw", version |-> v, flags |-> f, lastUpdated |-> d]

RawReleaseEntries ==
    {RawRelease(v, "validated", "2024-12-01T00:00:00Z") : v \in RawVersions}
    \cup {RawRelease(v, "validated, public", "2024-12-10T00:00:00Z") : v \in RawVersions}

\* The synthetic release id: extension_id + "-" + version.
ReleaseId(extension_id, version) == extension_id \o "-" \o version

(***************************************************************************)
(* fetch_releases.extract_release_metadata.  `releases` is a Python dict,  *)
(* modelled as the sequence of its <<key, value>> items in insertion       *)
(* order; a failed request's {} is the empty list.  A string flags value   *)
(* is kept as the one-element sequence <<string>>.                         *)
(***************************************************************************)
ReleaseRecord(extension_id, raw) ==
    [kind |-> "record",
     release_id |-> ReleaseId(extension_id, raw.version),
     version |-> raw.version,
     flags |-> <<raw.flags>>,
     last_updated |-> isoparse(raw.lastUpdated),
     extension_id |-> extension_id]

\* FR_Inner with the duplicate test left out: every entry gives a record.
RECURSIVE FR_Inner_NoDedup(_, _, _, _)
FR_Inner_NoDedup(extension_id, extension_releases, i, st) ==
    IF i > Len(extension_releases) THEN st
    ELSE FR_Inner_NoDedup(extension_id, extension_releases, i + 1,
             [meta |-> Append(st.meta, ReleaseRecord(extension_id, extension_releases[i])),
              ids |-> st.ids \cup {ReleaseId(extension_id, extension_releases[i].version)}])

\* The inner loop over one extension's list: st = [meta, ids].
RECURSIVE FR_Inner(_, _, _, _)
FR_Inner(extension_id, extension_releases, i, st) ==
    IF i > Len(extension_releases) THEN st
    ELSE LET extension_release == extension_releases[i]
             release_id == ReleaseId(extension_id, extension_release.version)
         IN IF release_id \in st.ids
            THEN FR_Inner(extension_id, extension_releases, i + 1, st)
            ELSE FR_Inner(extension_id, extension_releases, i + 1,
                     [meta |-> Append(st.meta, ReleaseRecord(extension_id, extension_release)),
                      ids |-> st.ids \cup {release_id}])

RECURSIVE FR_Outer(_, _, _)
FR_Outer(releases, k, st) ==
    IF k > Len(releases) THEN st
    ELSE FR_Outer(releases, k + 1, FR_Inner(releases[k][1], releases[k][2], 1, st))

\* pd.DataFrame(list, columns=[release_id, version, extension_id, flags,
\* last_updated]): one row per list element, a missing key giving NaN / NaT.
DataFrameRow(el) ==
    IF el.kind = "record"
    THEN [release_id |-> el.release_id, version |-> el.version,
          extension_id |-> el.extension_id, flags |-> el.flags,
          last_updated |-> el.last_updated]
    ELSE [release_id |-> NaN, version |-> el.version,
          extension_id |-> NaN, flags |-> <<el.flags>>,
          last_updated |-> NaT]

ReleasesDataFrame(list) == [i \in 1..Len(list) |-> DataFrameRow(list[i])]

fetch_releases_extract_release_metadata(releases) ==
    ReleasesDataFrame(FR_Outer(releases, 1, [meta |-> <<>>, ids |-> {}]).meta)

(***************************************************************************)
(* vscavator.extract_release_metadata.  The accumulator extension_releases *)
(* is rebound, per extension, to that extension's raw list (line 431), so  *)
(* the loop iterates over the list it appends to and the value returned is *)
(* built from the last extension's list.  A Python list iteration visits   *)
(* elements by index and sees the elements appended meanwhile.             *)
(***************************************************************************)
VsReleaseRecord(extension_id, el) ==
    [kind |-> "record",
     release_id |-> ReleaseId(extension_id, el.version),
     version |-> el.version,
     flags |-> SplitFlags(el.flags),
     last_updated |-> isoparse(el.lastUpdated),
     extension_id |-> extension_id]

\* st = [list, ids, iters]: the list being iterated, the ids seen, the number
\* of iterations of the inner loop so far.
RECURSIVE VS_Inner(_, _, _)
VS_Inner(extension_id, i, st) ==
    IF i > Len(st.list) THEN st
    ELSE LET extension_release == st.list[i]
             release_id == ReleaseId(extension_id, extension_release.version)
         IN IF release_id \in st.ids
            THEN VS_Inner(extension_id, i + 1,
                     [st EXCEPT !.iters = @ + 1])
            ELSE VS_Inner(extension_id, i + 1,
                     [list |-> Append(st.list, VsReleaseRecord(extension_id, extension_release)),
                      ids |-> st.ids \cup {release_id},
                      iters |-> st.iters + 1])

\* The outer loop with the list carried over from one extension to the next
\* instead of rebound.
RECURSIVE VS_Outer_KeepsList(_, _, _)
VS_Outer_KeepsList(releases, k, st) ==
    IF k > Len(releases) THEN st
    ELSE LET inner == VS_Inner(releases[k][1], 1,
                          [list |-> st.list \o releases[k][2], ids |-> st.ids,
                           iters |-> 0])
         IN VS_Outer_KeepsList(releases, k + 1,
                [list |-> inner.list, ids |-> inner.ids,
                 iters |-> Append(st.iters, inner.iters)])

\* The outer loop: st = [list, ids, iters], iters the number of iterations
\* the inner loop made for each extension so far.
RECURSIVE VS_Outer(_, _, _)
VS_Outer(releases, k, st) ==
    IF k > Len(releases) THEN st
    ELSE LET inner == VS_Inner(releases[k][1], 1,
                          [list |-> releases[k][2], ids |-> st.ids, iters |-> 0])
         IN VS_Outer(releases, k + 1,
                [list |-> inner.list, ids |-> inner.ids,
                 iters |-> Append(st.iters, inner.iters)])

vscavator_extract_release_metadata(releases) ==
    ReleasesDataFrame(VS_Outer(releases, 1, [list |-> <<>>, ids |-> {}, iters |-> <<>>]).list)

(***************************************************************************)
(* extract_extension_metadata (vscavator.py and fetch_extensions.py: the   *)
(* two differ in the flags column only, split in the former).  The fields  *)
(* kept are the identity, the names, the latest version and the publisher. *)
(***************************************************************************)
RawExtension(id, name, display, f, pid, pname, versions) ==
    [extensionId |-> id, extensionName |-> name, displayName |-> display,
     flags |-> f,
     publisher |-> [publisherId |-> pid, publisherName |-> pname],
     versions |-> versions]

ExtensionRow(extension, splitFlags) ==
    LET latest_version == extension.versions[1]
    IN [extension_id |-> extension.extensionId,
        extension_name |-> extension.extensionName,
        display_name |-> extension.displayName,
        flags |-> IF splitFlags THEN SplitFlags(extension.flags) ELSE <<extension.flags>>,
        latest_release_version |-> latest_version.version,
        publisher_id |-> extension.publisher.publisherId,
        extension_identifier |->
            extension.publisher.publisherName \o "." \o extension.extensionName]

\* EE_Loop where a later entry of an id replaces the row of the earlier one.
RECURSIVE EE_Loop_LastWins(_, _, _, _)
EE_Loop_LastWins(exts, i, st, splitFlags) ==
    IF i > Len(exts) THEN st
    ELSE LET extension == exts[i]
             extension_id == extension.extensionId
         IN IF extension_id \in st.unique
            THEN EE_Loop_LastWins(exts, i + 1,
                     [meta |-> [k \in 1..Len(st.meta) |->
                                   IF st.meta[k].extension_id = extension_id
                                   THEN ExtensionRow(extension, splitFlags)
                                   ELSE st.meta[k]],
                      unique |-> st.unique],
                     splitFlags)
            ELSE EE_Loop_LastWins(exts, i + 1,
                     [meta |-> Append(st.meta, ExtensionRow(extension, splitFlags)),
                      unique |-> st.unique \cup {extension_id}],
                     splitFlags)

\* st = [meta, unique]
RECURSIVE EE_Loop(_, _, _, _)
EE_Loop(exts, i, st, splitFlags) ==
    IF i > Len(exts) THEN st
    ELSE LET extension == exts[i]
             extension_id == extension.extensionId
         IN IF extension_id \in st.unique
            THEN EE_Loop(exts, i + 1, st, splitFlags)
            ELSE EE_Loop(exts, i + 1,
                     [meta |-> Append(st.meta, ExtensionRow(extension, splitFlags)),
                      unique |-> st.unique \cup {extension_id}],
                     splitFlags)

extract_extension_metadata(exts) ==
    EE_Loop(exts, 1, [meta |-> <<>>, unique |-> {}], TRUE).meta

fetch_extensions_extract_extension_metadata(exts) ==
    EE_Loop(exts, 1, [meta |-> <<>>, unique |-> {}], FALSE).meta

(***************************************************************************)
(* extract_publisher_metadata: one row per distinct publisher_id, built    *)
(* from the first entry carrying it.                                       *)
(***************************************************************************)
PublisherRow(extension) ==
    [publisher_id |-> extension.publisher.publisherId,
     publisher_name |-> extension.publisher.publisherName]

RECURSIVE EP_Loop(_, _, _)
EP_Loop(exts, i, st) ==
    IF i > Len(exts) THEN st
    ELSE LET publisher_id == exts[i].publisher.publisherId
         IN IF publisher_id \in st.unique
            THEN EP_Loop(exts, i + 1, st)
            ELSE EP_Loop(exts, i + 1,
                     [meta |-> Append(st.meta, PublisherRow(exts[i])),
                      unique |-> st.unique \cup {publisher_id}])

extract_publisher_metadata(exts) ==
    EP_Loop(exts, 1, [meta |-> <<>>, unique |-> {}]).meta

(***************************************************************************)
(* The marketplace of Spec.  Extension ids have one fixed format (equal    *)
(* length), so extension_id + "-" + version is injective on them.  The     *)
(* names of an extension and of its publisher never change upstream and    *)
(* publisher.name identifies one extension.  A version is an opaque        *)
(* string; the empty string is one of them.                                *)
(***************************************************************************)
ExtIds == {"a", "b"}
ExtensionName(e) == IF e = "a" THEN "alpha" ELSE "beta"
PublisherId(e) == "p1"
PublisherName(e) == "acme"

\* The version lists an extension can have upstream, newest first; <<>>: the
\* extension is not in the catalog.
UpstreamLists == {<<>>, <<"">>, <<"1">>, <<"2", "1">>}

RawVersionsOf(list) ==
    [i \in 1..Len(list) |-> RawRelease(list[i], "validated", "2024-12-01T00:00:00Z")]

CatalogEntry(e, list) ==
    RawExtension(e, ExtensionName(e), ExtensionName(e), "validated",
                 PublisherId(e), PublisherName(e), RawVersionsOf(list))

\* The catalog sorted by title, ascending (SORT_BY, SORT_ORDER).
Catalog(up) ==
    (IF up["a"] # <<>> THEN <<CatalogEntry("a", up["a"])>> ELSE <<>>)
    \o (IF up["b"] # <<>> THEN <<CatalogEntry("b", up["b"])>> ELSE <<>>)

EXTENSIONS_PAGE_SIZE == 10

\* The records of page pn of the catalog.
CatalogPage(up, pn) ==
    LET all == Catalog(up)
        lo == (pn - 1) * EXTENSIONS_PAGE_SIZE + 1
        hi == IF pn * EXTENSIONS_PAGE_SIZE < Len(all)
              THEN pn * EXTENSIONS_PAGE_SIZE ELSE Len(all)
    IN IF lo > hi THEN <<>> ELSE SubSeq(all, lo, hi)

calculate_number_of_extension_pages(num_extensions) ==
    num_extensions \div EXTENSIONS_PAGE_SIZE + 1

\* The page count as the number of pages that hold a record.
fetch_extensions_calculate_number_of_extension_pages_Ceil(num_extensions, extensions_page_size) ==
    (num_extensions + extensions_page_size - 1) \div extensions_page_size

\* fetch_extensions.calculate_number_of_extension_pages; Python's // on
\* non-negative integers is \div.
fetch_extensions_calculate_number_of_extension_pages(num_extensions, extensions_page_size) ==
    num_extensions \div extensions_page_size + 1

\* The default of its parameter extensions_page_size.
DEFAULT_EXTENSIONS_PAGE_SIZE == 100

(***************************************************************************)
(* The two lookups the resolver compares.                                  *)
(***************************************************************************)
\* db.get_old_latest_release_version: SELECT latest_release_version FROM
\* extensions WHERE extension_identifier = ...; "" when no row matches.
\* (At most one row matches: an identifier names one extension.)
get_old_latest_release_version(table, extension_identifier) ==
    LET hits == {e \in DOMAIN table :
                    table[e].extension_identifier = extension_identifier}
    IN IF hits # {}
       THEN table[CHOOSE e \in hits : TRUE].latest_release_version
       ELSE ""

\* vscavator.get_new_latest_release_version: the last row of the batch with
\* that identifier; "" when there is none.
get_new_latest_release_version(df, extension_identifier) ==
    LET hits == {i \in 1..Len(df) : df[i].extension_identifier = extension_identifier}
    IN IF hits = {}
       THEN ""
       ELSE df[CHOOSE i \in hits : \A j \in hits : j <= i].latest_release_version

(***************************************************************************)
(* The store.  A table is a function from the persisted primary keys to    *)
(* rows.  Every upsert is INSERT ... ON CONFLICT (key) DO UPDATE SET the   *)
(* listed columns.                                                         *)
(***************************************************************************)
EmptyTable == [k \in {} |-> 0]

PublisherDbRow(row) == [publisher_name |-> row.publisher_name]

RECURSIVE upsert_publishers(_, _)
upsert_publishers(table, df) ==
    IF df = <<>> THEN table
    ELSE LET row == Head(df)
             t2 == [k \in DOMAIN table \cup {row.publisher_id} |->
                       IF k = row.publisher_id THEN PublisherDbRow(row) ELSE table[k]]
         IN upsert_publishers(t2, Tail(df))

\* The extensions row written without the version observed.
ExtensionDbRow_NoVersion(row) ==
    [extension_name |-> row.extension_name,
     latest_release_version |-> "",
     publisher_id |-> row.publisher_id,
     extension_identifier |-> row.extension_identifier]

ExtensionDbRow(row) ==
    [extension_name |-> row.extension_name,
     latest_release_version |-> row.latest_release_version,
     publisher_id |-> row.publisher_id,
     extension_identifier |-> row.extension_identifier]

RECURSIVE upsert_extensions(_, _)
upsert_extensions(table, df) ==
    IF df = <<>> THEN table
    ELSE LET row == Head(df)
             t2 == [k \in DOMAIN table \cup {row.extension_id} |->
                       IF k = row.extension_id THEN ExtensionDbRow(row) ELSE table[k]]
         IN upsert_extensions(t2, Tail(df))

\* The upsert written as a replacement of the row: the flag falls back to its
\* column default.
UpsertReleaseRow_ResetsFlag(table, row) ==
    [k \in DOMAIN table \cup {row.release_id} |->
        IF k = row.release_id
        THEN [extension_id |-> row.extension_id,
              version |-> row.version,
              uploaded_to_s3 |-> FALSE]
        ELSE table[k]]

\* One row of the releases upsert: a new release_id is inserted with the
\* column default uploaded_to_s3 = FALSE; on conflict version and extension_id
\* (and flags, last_updated) are overwritten and uploaded_to_s3 is left alone.
UpsertReleaseRow(table, row) ==
    [k \in DOMAIN table \cup {row.release_id} |->
        IF k = row.release_id
        THEN [extension_id |-> row.extension_id,
              version |-> row.version,
              uploaded_to_s3 |-> IF k \in DOMAIN table
                                 THEN table[k].uploaded_to_s3 ELSE FALSE]
        ELSE table[k]]

RECURSIVE UpsertReleaseRows(_, _)
UpsertReleaseRows(table, df) ==
    IF df = <<>> THEN table
    ELSE UpsertReleaseRows(UpsertReleaseRow(table, Head(df)), Tail(df))

\* The statement is rejected as a whole (psycopg2 raises, nothing is
\* committed) when a row has no release_id or no extension_id (NOT NULL
\* primary key, foreign key), references an extension that is not persisted,
\* or when two rows of the statement carry the same release_id.
ReleasesStatementRejected(extensions_table, df) ==
    \/ \E i \in 1..Len(df) :
           \/ df[i].release_id = NaN
           \/ df[i].extension_id = NaN
           \/ df[i].extension_id \notin DOMAIN extensions_table
    \/ \E i, j \in 1..Len(df) : i < j /\ df[i].release_id = df[j].release_id

\* db.upsert_releases: no statement for an empty frame; otherwise every batch
\* sends the whole list of values (line 305), so the rows written are all rows.
upsert_releases(table, extensions_table, df) ==
    IF df = <<>> THEN [raised |-> FALSE, table |-> table]
    ELSE IF ReleasesStatementRejected(extensions_table, df)
         THEN [raised |-> TRUE, table |-> table]
         ELSE [raised |-> FALSE, table |-> UpsertReleaseRows(table, df)]

(***************************************************************************)
(* df.combine_dataframes([releases_df, extensions_df, publishers_df],      *)
(* ["extension_id", "publisher_id"]): two inner merges.  The rows keep the *)
(* order of the releases frame and their columns, and gain the names of    *)
(* the extension and of the publisher.                                     *)
(***************************************************************************)
RECURSIVE combine_dataframes(_, _, _)
combine_dataframes(rdf, edf, pdf) ==
    IF rdf = <<>> THEN <<>>
    ELSE LET r == Head(rdf)
             es == {i \in 1..Len(edf) : edf[i].extension_id = r.extension_id}
             joined ==
                 IF es = {} THEN <<>>
                 ELSE LET e == edf[CHOOSE i \in es : TRUE]
                          ps == {j \in 1..Len(pdf) : pdf[j].publisher_id = e.publisher_id}
                      IN IF ps = {} THEN <<>>
                         ELSE <<[publisher_name |-> pdf[CHOOSE j \in ps : TRUE].publisher_name,
                                 extension_name |-> e.extension_name] @@ r>>
         IN joined \o combine_dataframes(Tail(rdf), edf, pdf)

(***************************************************************************)
(* Spec: runs of vscavator.main, one after the other, against the store.   *)
(***************************************************************************)
\* main overwrites the probe's answer with 1 (line 679) before computing the
\* number of pages.
NumExtensionPages == calculate_number_of_extension_pages(1)

\* Python dict assignment d[key] = value on the item sequence.
DictPut(d, key, value) ==
    IF \E i \in 1..Len(d) : d[i][1] = key
    THEN [i \in 1..Len(d) |-> IF d[i][1] = key THEN <<key, value>> ELSE d[i]]
    ELSE Append(d, <<key, value>>)

DictKeys(d) == {d[i][1] : i \in 1..Len(d)}

XIdle ==
    /\ xin = [kind |-> "none"]
    /\ xout = [fn |-> "none"]

\* No process of the app is running: nothing is connected.
AppIdle == connections = <<>>

UpIdle ==
    /\ upc = "idle"
    /\ combined_df = <<>>
    /\ up_i = 1
    /\ unique_extensions = {}
    /\ failed_extensions = <<>>
    /\ cur = <<>>
    /\ attempts = EmptyTable
    /\ put_log = {}
    /\ first_ok = {}
    /\ perm_failed = {}
    /\ ended = "none"
    /\ rerun = FALSE
    /\ reupserted = FALSE

RunLocalsReset ==
    /\ page_number' = 1
    /\ extensions' = <<>>
    /\ extensions_df' = <<>>
    /\ rel_i' = 1
    /\ all_releases' = <<>>
    /\ releases_df' = <<>>
    /\ db0' = EmptyTable
    /\ requested' = {}

Init ==
    /\ XIdle
    /\ AppIdle
    /\ UpIdle
    /\ db_extensions = EmptyTable
    /\ db_publishers = EmptyTable
    /\ db_releases = EmptyTable
    /\ s3_keys = {}
    /\ upstream \in [ExtIds -> UpstreamLists]
    /\ pc = "idle"
    /\ page_number = 1
    /\ extensions = <<>>
    /\ extensions_df = <<>>
    /\ rel_i = 1
    /\ all_releases = <<>>
    /\ releases_df = <<>>
    /\ db0 = EmptyTable
    /\ requested = {}
    /\ probe = [status |-> "none", total |-> 0]
    /\ page_log = <<>>

\* Between two runs the marketplace changes an extension's version list.
UpstreamChange ==
    /\ pc = "idle"
    /\ \E e \in ExtIds, list \in UpstreamLists :
           /\ list # upstream[e]
           /\ upstream' = [upstream EXCEPT ![e] = list]
    /\ UNCHANGED <<pc, page_number, extensions, extensions_df, rel_i, all_releases,
                   releases_df, db0, requested, probe, page_log>>
    /\ UNCHANGED <<appvars, xvars, storevars, upvars>>

\* The total counts the marketplace reports: it lists far more extensions
\* than the two this model follows, which sort onto its first page.
ProbeTotals == {0, 2, 10, 150}

\* The probe handing on the count it could not read.
get_total_number_of_extensions_KeepsCount(ok, total_count) == total_count

\* get_total_number_of_extensions: the TotalCount of a 200 answer, 0 after
\* any other status.
get_total_number_of_extensions(ok, total_count) == IF ok THEN total_count ELSE 0

\* main, lines 667-680: set-up, probe, number of pages.
MainStart ==
    /\ pc = "idle"
    /\ pc' = "get_all_extensions"
    /\ \E ok \in BOOLEAN, total_count \in ProbeTotals :
           /\ total_count >= Len(Catalog(upstream))
           /\ total_count = 0 => ok
           /\ probe' = [status |-> IF ok THEN "200" ELSE "500",
                        total |-> get_total_number_of_extensions(ok, total_count)]
    /\ page_log' = <<>>
    /\ page_number' = 1
    /\ extensions' = <<>>
    /\ extensions_df' = <<>>
    /\ rel_i' = 1
    /\ all_releases' = <<>>
    /\ releases_df' = <<>>
    /\ db0' = db_extensions
    /\ requested' = {}
    /\ UNCHANGED <<upstream, appvars, xvars, storevars, upvars>>

\* One iteration of get_all_extensions' loop: get_extensions answers 200 with
\* the page's records, or another status and [] is returned.  After the last
\* page main extracts the extensions frame.
GetExtensionsPage ==
    /\ pc = "get_all_extensions"
    /\ page_number <= NumExtensionPages
    /\ \E ok \in BOOLEAN :
           LET got == IF ok THEN CatalogPage(upstream, page_number) ELSE <<>>
               all == extensions \o got
           IN /\ extensions' = all
              /\ page_log' = Append(page_log, [page |-> page_number,
                                               status |-> IF ok THEN "200" ELSE "500",
                                               records |-> got])
              /\ page_number' = page_number + 1
              /\ IF page_number = NumExtensionPages
                 THEN /\ extensions_df' = extract_extension_metadata(all)
                      /\ pc' = "get_all_releases"
                 ELSE UNCHANGED <<extensions_df, pc>>
    /\ UNCHANGED <<upstream, rel_i, all_releases, releases_df, db0, requested, probe>>
    /\ UNCHANGED <<appvars, xvars, storevars, upvars>>

\* The page request gets no answer within REQUESTS_TIMEOUT: session.post
\* raises (line 145), nothing between it and main catches, the run ends.
GetExtensionsTimeout ==
    /\ pc = "get_all_extensions"
    /\ page_number <= NumExtensionPages
    /\ page_log' = Append(page_log, [page |-> page_number, status |-> "timeout",
                                     records |-> <<>>])
    /\ pc' = "idle"
    /\ RunLocalsReset
    /\ UNCHANGED <<upstream, probe>>
    /\ UNCHANGED <<appvars, xvars, storevars, upvars>>

\* The comparison dropped: every extension is fetched again.
already_retrieved_Never(old_latest_release_version, new_latest_release_version) ==
    FALSE

\* get_all_releases, lines 296-302: the two versions are equal.
already_retrieved(old_latest_release_version, new_latest_release_version) ==
    old_latest_release_version = new_latest_release_version

ResolveSkip ==
    /\ pc = "get_all_releases"
    /\ rel_i <= Len(extensions_df)
    /\ LET extension_identifier == extensions_df[rel_i].extension_identifier
           old == get_old_latest_release_version(db_extensions, extension_identifier)
           new == get_new_latest_release_version(extensions_df, extension_identifier)
       IN already_retrieved(old, new)
    /\ rel_i' = rel_i + 1
    /\ UNCHANGED <<upstream, pc, page_number, extensions, extensions_df, all_releases,
                   releases_df, db0, requested, probe, page_log>>
    /\ UNCHANGED <<appvars, xvars, storevars, upvars>>

\* get_all_releases, lines 304-307: the request is issued; get_extension_releases
\* returns the versions list on 200 and {} otherwise.
ResolveFetch ==
    /\ pc = "get_all_releases"
    /\ rel_i <= Len(extensions_df)
    /\ LET extension_id == extensions_df[rel_i].extension_id
           extension_identifier == extensions_df[rel_i].extension_identifier
           old == get_old_latest_release_version(db_extensions, extension_identifier)
           new == get_new_latest_release_version(extensions_df, extension_identifier)
       IN /\ ~already_retrieved(old, new)
          /\ \E ok \in BOOLEAN :
                 all_releases' = DictPut(all_releases, extension_id,
                                     IF ok THEN RawVersionsOf(upstream[extension_id])
                                     ELSE <<>>)
          /\ requested' = requested \cup {extension_id}
    /\ rel_i' = rel_i + 1
    /\ UNCHANGED <<upstream, pc, page_number, extensions, extensions_df, releases_df, db0,
                   probe, page_log>>
    /\ UNCHANGED <<appvars, xvars, storevars, upvars>>

\* The loop is over: main extracts the releases frame (the reviews fetched and
\* upserted next touch none of the tables of the model).
ResolveDone ==
    /\ pc = "get_all_releases"
    /\ rel_i > Len(extensions_df)
    /\ releases_df' = vscavator_extract_release_metadata(all_releases)
    /\ pc' = "upsert_publishers"
    /\ UNCHANGED <<upstream, page_number, extensions, extensions_df, rel_i, all_releases,
                   db0, requested, probe, page_log>>
    /\ UNCHANGED <<appvars, xvars, storevars, upvars>>

UpsertPublishers ==
    /\ pc = "upsert_publishers"
    /\ db_publishers' = upsert_publishers(db_publishers, extract_publisher_metadata(extensions))
    /\ pc' = "upsert_extensions"
    /\ UNCHANGED <<db_extensions, db_releases, s3_keys>>
    /\ UNCHANGED <<upstream, page_number, extensions, extensions_df, rel_i, all_releases,
                   releases_df, db0, requested, probe, page_log>>
    /\ UNCHANGED <<appvars, xvars, upvars>>

UpsertExtensions ==
    /\ pc = "upsert_extensions"
    /\ db_extensions' = upsert_extensions(db_extensions, extensions_df)
    /\ pc' = "upsert_releases"
    /\ UNCHANGED <<db_publishers, db_releases, s3_keys>>
    /\ UNCHANGED <<upstream, page_number, extensions, extensions_df, rel_i, all_releases,
                   releases_df, db0, requested, probe, page_log>>
    /\ UNCHANGED <<appvars, xvars, upvars>>

\* upsert_releases: when the statement raises, the exception leaves main and
\* the run is over.
UpsertReleases ==
    /\ pc = "upsert_releases"
    /\ LET res == upsert_releases(db_releases, db_extensions, releases_df)
       IN IF res.raised
          THEN /\ pc' = "idle"
               /\ RunLocalsReset
               /\ UNCHANGED <<probe, page_log, db_releases>>
          ELSE /\ pc' = "upload"
               /\ db_releases' = res.table
               /\ UNCHANGED <<page_number, extensions, extensions_df, rel_i, all_releases,
                              releases_df, db0, requested, probe, page_log>>
    /\ UNCHANGED <<db_extensions, db_publishers, s3_keys>>
    /\ UNCHANGED <<upstream, appvars, xvars, upvars>>

\* The candidates main hands to upload_all_extensions_to_s3.
MainCandidates ==
    combine_dataframes(releases_df, extensions_df, extract_publisher_metadata(extensions))

\* upload_all_extensions_to_s3 over the candidates of this run.  The frame is
\* empty whenever the run gets here (MainCandidatesEmpty), so both loops of the
\* uploader have nothing to iterate over.
MainUpload ==
    /\ pc = "upload"
    /\ MainCandidates = <<>>
    /\ pc' = "validate"
    /\ UNCHANGED <<upstream, page_number, extensions, extensions_df, rel_i, all_releases,
                   releases_df, db0, requested, probe, page_log>>
    /\ UNCHANGED <<appvars, xvars, storevars, upvars>>

\* validate_data_consistency reads and logs; then the connections are closed.
MainValidate ==
    /\ pc = "validate"
    /\ pc' = "idle"
    /\ RunLocalsReset
    /\ UNCHANGED <<probe, page_log>>
    /\ UNCHANGED <<upstream, appvars, xvars, storevars, upvars>>

\* The process dies in the middle of a run: a request times out (requests
\* raises, main catches nothing), the database or the network goes away.
\* What was committed stays.
Crash ==
    /\ pc # "idle"
    /\ pc' = "idle"
    /\ RunLocalsReset
    /\ UNCHANGED <<probe, page_log>>
    /\ UNCHANGED <<upstream, appvars, xvars, storevars, upvars>>

Next ==
    \/ UpstreamChange
    \/ MainStart
    \/ GetExtensionsPage
    \/ GetExtensionsTimeout
    \/ ResolveSkip
    \/ ResolveFetch
    \/ ResolveDone
    \/ UpsertPublishers
    \/ UpsertExtensions
    \/ UpsertReleases
    \/ MainUpload
    \/ MainValidate
    \/ Crash

Spec == Init /\ [][Next]_vars

\* Whenever a run reaches the uploader its candidate frame is empty: a
\* non-empty releases frame holds raw rows and its upsert raises.
MainCandidatesEmpty == pc = "upload" => MainCandidates = <<>>

(***************************************************************************)
(* SpecExtract: the extraction functions applied to bounded raw inputs.    *)
(***************************************************************************)
\* Python dicts over RawExtIds: item sequences with distinct keys.
RawLists == SeqsUpTo(RawReleaseEntries, MaxRaw)

ReleaseDicts ==
    {<<>>}
    \cup {<<<<k, l>>>> : k \in RawExtIds, l \in RawLists}
    \cup {<<<<kk[1], l1>>, <<kk[2], l2>>>> :
            kk \in {q \in RawExtIds \X RawExtIds : q[1] # q[2]},
            l1 \in RawLists, l2 \in RawLists}

\* Raw catalog entries: two ids, each seen with two display names and two
\* version lists, so that a later duplicate differs from the first entry.
RawExtensionEntries ==
    {RawExtension(id, ExtensionName(id), d, "validated, public",
                  PublisherId(id), PublisherName(id), vs) :
        id \in ExtIds, d \in {"Display 1", "Display 2"},
        vs \in {RawVersionsOf(<<"1">>), RawVersionsOf(<<"2", "1">>)}}

ExtensionBatches == SeqsUpTo(RawExtensionEntries, MaxBatch)

MainIdle ==
    /\ db_extensions = EmptyTable
    /\ db_publishers = EmptyTable
    /\ db_releases = EmptyTable
    /\ s3_keys = {}
    /\ upstream = [e \in ExtIds |-> <<>>]
    /\ pc = "idle"
    /\ page_number = 1
    /\ extensions = <<>>
    /\ extensions_df = <<>>
    /\ rel_i = 1
    /\ all_releases = <<>>
    /\ releases_df = <<>>
    /\ db0 = EmptyTable
    /\ requested = {}
    /\ probe = [status |-> "none", total |-> 0]
    /\ page_log = <<>>

\* Arguments of the page-count functions: the number of extensions, and the
\* page size when the caller passes it.
ExtensionCounts == {0, 1, 9, 10, 11, 99, 100, 101, 110, 150, 200, 250, 49999, 50000}
PageSizes == {1, 7, 10, 100}
PageCountCalls ==
    {[n |-> n, given |-> TRUE, page_size |-> ps] : n \in ExtensionCounts, ps \in PageSizes}
    \cup {[n |-> n, given |-> FALSE, page_size |-> DEFAULT_EXTENSIONS_PAGE_SIZE] :
              n \in ExtensionCounts}

\* fetch_extensions.extract_extension_statistics: the allowlist is the key
\* set of the initial dict, every value starts at 0.
StatisticNames ==
    {"install", "averagerating", "ratingcount", "trendingdaily",
     "trendingmonthly", "trendingweekly", "updateCount", "weightedRating",
     "downloadCount"}

extension_stats_default == [n \in StatisticNames |-> 0]

\* A variant of the loop body that keeps the first value seen for a name.
ES_Step_FirstWins(acc, stat) ==
    IF stat.statisticName \in DOMAIN acc /\ acc[stat.statisticName] = 0
    THEN [acc EXCEPT ![stat.statisticName] = stat.value]
    ELSE acc

\* One iteration of the loop over `statistics`.
ES_Step(acc, stat) ==
    IF stat.statisticName \in DOMAIN acc
    THEN [acc EXCEPT ![stat.statisticName] = stat.value]
    ELSE acc

RECURSIVE ES_Loop(_, _, _)
ES_Loop(statistics, i, acc) ==
    IF i > Len(statistics) THEN acc
    ELSE ES_Loop(statistics, i + 1, ES_Step(acc, statistics[i]))

extract_extension_statistics(statistics) ==
    ES_Loop(statistics, 1, extension_stats_default)

\* fetch_extensions.extract_extension_github_url: scan until the first
\* property with the GitHub key, then break.
GITHUB_LINK_KEY == "Microsoft.VisualStudio.Services.Links.GitHub"

\* A variant of the scan without the break: the last match wins.
RECURSIVE GH_Loop_NoBreak(_, _, _)
GH_Loop_NoBreak(properties, i, github_url) ==
    IF i > Len(properties) THEN github_url
    ELSE IF properties[i].key = GITHUB_LINK_KEY
         THEN GH_Loop_NoBreak(properties, i + 1, properties[i].value)
         ELSE GH_Loop_NoBreak(properties, i + 1, github_url)

RECURSIVE GH_Loop(_, _, _)
GH_Loop(properties, i, github_url) ==
    IF i > Len(properties) THEN github_url
    ELSE IF properties[i].key = GITHUB_LINK_KEY
         THEN properties[i].value
         ELSE GH_Loop(properties, i + 1, github_url)

extract_extension_github_url(properties) == GH_Loop(properties, 1, "")

\* Inputs of the two scans: statistics with two allowlisted names and one
\* foreign name, properties with the GitHub key and one other key.
MaxStats == 3
StatisticEntries ==
    {[statisticName |-> n, value |-> v] :
        n \in {"install", "downloadCount", "irrelevantStat"}, v \in {3, 7}}
StatisticLists == SeqsUpTo(StatisticEntries, MaxStats)

PropertyEntries ==
    {[key |-> k, value |-> v] :
        k \in {GITHUB_LINK_KEY, "Other.Property"},
        v \in {"https://github.com/example/repo", "https://other-link.com"}}
PropertyLists == SeqsUpTo(PropertyEntries, MaxStats)

\* The statements of the batched upserts.  `values` is the list of row
\* tuples; a statement is the list of rows handed to upsert_data.
\* range(0, len(values), batch_size) as the sequence of its start offsets.
RangeStep(n, step) == [k \in 1..((n + step - 1) \div step) |-> (k - 1) * step]

\* values[i : i + batch_size], i counted from 0 as in Python.
Slice(values, i, batch_size) ==
    SubSeq(values, i + 1,
           IF i + batch_size < Len(values) THEN i + batch_size ELSE Len(values))

\* db.upsert_releases and fetch_releases.upsert_releases: the slice `batch`
\* is computed and logged, the statement is issued with `values`.
upsert_releases_statements(values, batch_size) ==
    LET starts == RangeStep(Len(values), batch_size)
    IN [k \in 1..Len(starts) |-> values]

\* fetch_extensions.upsert_extensions: the statement is issued with `batch`.
upsert_extensions_statements(values, batch_size) ==
    LET starts == RangeStep(Len(values), batch_size)
    IN [k \in 1..Len(starts) |-> Slice(values, starts[k], batch_size)]

\* Frames of 0..MaxRows rows (a row stands for its tuple of values) and the
\* batch sizes they are written with.
MaxRows == 4
BatchSizes == {1, 2, 3}
UpsertCalls ==
    {[values |-> [i \in 1..n |-> i], batch_size |-> b] : n \in 0..MaxRows, b \in BatchSizes}

InitExtract ==
    /\ xin \in {[kind |-> "releases", val |-> d] : d \in ReleaseDicts}
               \cup {[kind |-> "extensions", val |-> b] : b \in ExtensionBatches}
               \cup {[kind |-> "pages", val |-> c] : c \in PageCountCalls}
               \cup {[kind |-> "statistics", val |-> l] : l \in StatisticLists}
               \cup {[kind |-> "properties", val |-> l] : l \in PropertyLists}
               \cup {[kind |-> "upsert", val |-> c] : c \in UpsertCalls}
    /\ xout = [fn |-> "none"]
    /\ MainIdle
    /\ UpIdle
    /\ connections = <<>>

ApplyFetchReleasesExtract ==
    /\ xin.kind = "releases"
    /\ xout.fn = "none"
    /\ xout' = [fn |-> "fetch_releases.extract_release_metadata",
                val |-> fetch_releases_extract_release_metadata(xin.val)]
    /\ UNCHANGED <<appvars, xin, storevars, mainvars, upvars>>

ApplyVscavatorReleasesExtract ==
    /\ xin.kind = "releases"
    /\ xout.fn = "none"
    /\ xout' = [fn |-> "vscavator.extract_release_metadata",
                val |-> vscavator_extract_release_metadata(xin.val)]
    /\ UNCHANGED <<appvars, xin, storevars, mainvars, upvars>>

ApplyExtractExtensions ==
    /\ xin.kind = "extensions"
    /\ xout.fn = "none"
    /\ xout' = [fn |-> "vscavator.extract_extension_metadata",
                val |-> extract_extension_metadata(xin.val)]
    /\ UNCHANGED <<appvars, xin, storevars, mainvars, upvars>>

ApplyFetchExtensionsExtract ==
    /\ xin.kind = "extensions"
    /\ xout.fn = "none"
    /\ xout' = [fn |-> "fetch_extensions.extract_extension_metadata",
                val |-> fetch_extensions_extract_extension_metadata(xin.val)]
    /\ UNCHANGED <<appvars, xin, storevars, mainvars, upvars>>

ApplyFetchExtensionsPages ==
    /\ xin.kind = "pages"
    /\ xout.fn = "none"
    /\ xout' = [fn |-> "fetch_extensions.calculate_number_of_extension_pages",
                val |-> fetch_extensions_calculate_number_of_extension_pages(
                            xin.val.n, xin.val.page_size)]
    /\ UNCHANGED <<appvars, xin, storevars, mainvars, upvars>>

\* The function of vscavator.py takes the number of extensions only.
ApplyVscavatorPages ==
    /\ xin.kind = "pages"
    /\ ~xin.val.given
    /\ xout.fn = "none"
    /\ xout' = [fn |-> "vscavator.calculate_number_of_extension_pages",
                val |-> calculate_number_of_extension_pages(xin.val.n)]
    /\ UNCHANGED <<appvars, xin, storevars, mainvars, upvars>>

ApplyExtractExtensionStatistics ==
    /\ xin.kind = "statistics"
    /\ xout.fn = "none"
    /\ xout' = [fn |-> "fetch_extensions.extract_extension_statistics",
                val |-> extract_extension_statistics(xin.val)]
    /\ UNCHANGED <<appvars, xin, storevars, mainvars, upvars>>

ApplyExtractExtensionGithubUrl ==
    /\ xin.kind = "properties"
    /\ xout.fn = "none"
    /\ xout' = [fn |-> "fetch_extensions.extract_extension_github_url",
                val |-> extract_extension_github_url(xin.val)]
    /\ UNCHANGED <<appvars, xin, storevars, mainvars, upvars>>

ApplyUpsertReleasesStatements ==
    /\ xin.kind = "upsert"
    /\ xout.fn = "none"
    /\ xout' = [fn |-> "upsert_releases",
                val |-> upsert_releases_statements(xin.val.values, xin.val.batch_size)]
    /\ UNCHANGED <<appvars, xin, storevars, mainvars, upvars>>

ApplyUpsertExtensionsStatements ==
    /\ xin.kind = "upsert"
    /\ xout.fn = "none"
    /\ xout' = [fn |-> "fetch_extensions.upsert_extensions",
                val |-> upsert_extensions_statements(xin.val.values, xin.val.batch_size)]
    /\ UNCHANGED <<appvars, xin, storevars, mainvars, upvars>>

NextExtract ==
    \/ ApplyFetchExtensionsPages
    \/ ApplyVscavatorPages
    \/ ApplyFetchReleasesExtract
    \/ ApplyVscavatorReleasesExtract
    \/ ApplyExtractExtensions
    \/ ApplyFetchExtensionsExtract
    \/ ApplyExtractExtensionStatistics
    \/ ApplyExtractExtensionGithubUrl
    \/ ApplyUpsertReleasesStatements
    \/ ApplyUpsertExtensionsStatements

SpecExtract == InitExtract /\ [][NextExtract]_vars

(***************************************************************************)
(* Properties of the extraction functions.                                 *)
(***************************************************************************)
\* The raw entries of a dict in iteration order, each with its extension id.
RECURSIVE FlatEntries(_)
FlatEntries(d) ==
    IF d = <<>> THEN <<>>
    ELSE [i \in 1..Len(d[1][2]) |-> [extension_id |-> d[1][1], raw |-> d[1][2][i]]]
         \o FlatEntries(Tail(d))

FlatId(f) == f.extension_id \o "-" \o f.raw.version

\* The position in flat of the first entry whose synthetic id is rid.
FirstOccurrence(flat, rid) ==
    CHOOSE k \in 1..Len(flat) :
        /\ FlatId(flat[k]) = rid
        /\ \A m \in 1..(k - 1) : FlatId(flat[m]) # rid

OutIds(out) == {out[i].release_id : i \in 1..Len(out)}

\* C4: fetch_releases.extract_release_metadata returns exactly one record per
\* distinct release_id of the input; the record carries the attributes of the
\* first occurrence of that id and the records are in first-occurrence order.
C4_FirstSeenWins ==
    xout.fn = "fetch_releases.extract_release_metadata" =>
        LET flat == FlatEntries(xin.val)
            out == xout.val
        IN /\ OutIds(out) = {FlatId(flat[k]) : k \in 1..Len(flat)}
           /\ \A i, j \in 1..Len(out) : i < j =>
                  /\ out[i].release_id # out[j].release_id
                  /\ FirstOccurrence(flat, out[i].release_id)
                         < FirstOccurrence(flat, out[j].release_id)
           /\ \A i \in 1..Len(out) :
                  LET f == flat[FirstOccurrence(flat, out[i].release_id)]
                  IN /\ out[i].extension_id = f.extension_id
                     /\ out[i].version = f.raw.version
                     /\ out[i].flags = <<f.raw.flags>>
                     /\ out[i].last_updated = isoparse(f.raw.lastUpdated)

\* A later occurrence of an id, with other attributes, was discarded.
C4_Witness ==
    /\ xout.fn = "fetch_releases.extract_release_metadata"
    /\ LET flat == FlatEntries(xin.val)
       IN /\ Len(xout.val) < Len(flat)
          /\ \E k, m \in 1..Len(flat) :
                 /\ k < m
                 /\ FlatId(flat[k]) = FlatId(flat[m])
                 /\ flat[k] # flat[m]
                 /\ flat[k].extension_id # flat[m].extension_id

\* C5: vscavator.extract_release_metadata returns exactly one normalized
\* record for every distinct release_id over all extensions of the input, and
\* nothing but normalized records.
C5_AllExtensionsNormalized ==
    xout.fn = "vscavator.extract_release_metadata" =>
        LET flat == FlatEntries(xin.val)
            out == xout.val
        IN /\ \A i \in 1..Len(out) : out[i].release_id # NaN
           /\ OutIds(out) = {FlatId(flat[k]) : k \in 1..Len(flat)}
           /\ \A i, j \in 1..Len(out) : i < j => out[i].release_id # out[j].release_id

\* The position in a batch of the first entry with extension id id.
FirstEntry(batch, id) ==
    CHOOSE k \in 1..Len(batch) :
        /\ batch[k].extensionId = id
        /\ \A m \in 1..(k - 1) : batch[m].extensionId # id

\* C6: extract_extension_metadata returns exactly one record per distinct
\* extension_id of the batch, built from the first entry with that id alone,
\* in the order of the first occurrences.
C6_FirstExtensionWins ==
    xout.fn \in {"vscavator.extract_extension_metadata",
                 "fetch_extensions.extract_extension_metadata"} =>
        LET batch == xin.val
            out == xout.val
        IN /\ {out[i].extension_id : i \in 1..Len(out)}
                  = {batch[k].extensionId : k \in 1..Len(batch)}
           /\ \A i, j \in 1..Len(out) : i < j =>
                  /\ out[i].extension_id # out[j].extension_id
                  /\ FirstEntry(batch, out[i].extension_id)
                         < FirstEntry(batch, out[j].extension_id)
           /\ \A i \in 1..Len(out) :
                  LET x == batch[FirstEntry(batch, out[i].extension_id)]
                  IN /\ out[i].extension_name = x.extensionName
                     /\ out[i].display_name = x.displayName
                     /\ out[i].latest_release_version = x.versions[1].version
                     /\ out[i].publisher_id = x.publisher.publisherId
                     /\ out[i].extension_identifier
                            = x.publisher.publisherName \o "." \o x.extensionName

\* A later entry of an id, with another display name and another latest
\* version, was dropped.
C6_Witness ==
    /\ xout.fn = "vscavator.extract_extension_metadata"
    /\ LET batch == xin.val
       IN /\ Len(xout.val) < Len(batch)
          /\ \E k, m \in 1..Len(batch) :
                 /\ k < m
                 /\ batch[k].extensionId = batch[m].extensionId
                 /\ batch[k].displayName # batch[m].displayName
                 /\ batch[k].versions[1].version # batch[m].versions[1].version

(***************************************************************************)
(* Properties of the resolver, over the runs of main.                      *)
(***************************************************************************)
\* The rows of the batch get_all_releases has decided on so far.
Processed ==
    IF pc = "get_all_releases" THEN 1..(rel_i - 1)
    ELSE IF pc \in {"upsert_publishers", "upsert_extensions", "upsert_releases",
                    "upload", "validate"}
         THEN 1..Len(extensions_df)
         ELSE {}

\* The extensions persisted with that identifier when the run started.
PersistedBefore(extension_identifier) ==
    {e \in DOMAIN db0 : db0[e].extension_identifier = extension_identifier}

\* C1: for an extension of the batch with a persisted row, a releases-detail
\* request is issued if and only if the version persisted before the run and
\* the version freshly observed differ as strings; an extension that is not
\* requested is absent from the result.  The set selected is thereby a function
\* of the persisted state and the batch.
C1_DeltaDecision ==
    \A i \in Processed :
        LET r == extensions_df[i]
            pers == PersistedBefore(r.extension_identifier)
        IN /\ pers # {} =>
                  (r.extension_id \in requested
                      <=> \E e \in pers :
                              db0[e].latest_release_version # r.latest_release_version)
           /\ r.extension_id \in DictKeys(all_releases) <=> r.extension_id \in requested

\* A run decided on two persisted extensions: one unchanged and skipped, one
\* changed and requested.
C1_Witness ==
    /\ pc = "upsert_publishers"
    /\ \E i, j \in 1..Len(extensions_df) :
           LET r == extensions_df[i]
               q == extensions_df[j]
           IN /\ r.extension_id \in DOMAIN db0
              /\ q.extension_id \in DOMAIN db0
              /\ db0[r.extension_id].latest_release_version = r.latest_release_version
              /\ r.extension_id \notin requested
              /\ db0[q.extension_id].latest_release_version # q.latest_release_version
              /\ q.extension_id \in requested

\* C2: an extension of the batch with no persisted row for its identifier
\* always gets a releases-detail request, whatever its version string is.
C2_NewAlwaysFetched ==
    \A i \in Processed :
        LET r == extensions_df[i]
        IN PersistedBefore(r.extension_identifier) = {} => r.extension_id \in requested

Chars(str) ==
    CASE str = "" -> <<>>
      [] str = "1" -> <<"1">>
      [] str = "2" -> <<"2">>
      [] str = "/" -> <<"/">>
      [] str = "acme" -> <<"a", "c", "m", "e">>
      [] str = "alpha" -> <<"a", "l", "p", "h", "a">>
      [] str = "beta" -> <<"b", "e", "t", "a">>
      [] str = ".vsix" -> <<".", "v", "s", "i", "x">>
      [] str = "extensions/" ->
             <<"e", "x", "t", "e", "n", "s", "i", "o", "n", "s", "/">>

\* The str of a sequence of characters.
RECURSIVE Join(_)
Join(cs) == IF cs = <<>> THEN "" ELSE Head(cs) \o Join(Tail(cs))

\* The object key of upload_extension_to_s3 (line 44):
\* f"extensions/{publisher_name}/{extension_name}/{extension_version}.vsix".
S3Key(publisher_name, extension_name, extension_version) ==
    Chars("extensions/") \o Chars(publisher_name) \o Chars("/")
        \o Chars(extension_name) \o Chars("/")
        \o Chars(extension_version) \o Chars(".vsix")

\* db.is_uploaded_to_s3: the flag of the row with that extension and version,
\* False when there is none.  (release_id is the key, so at most one row.)
is_uploaded_to_s3_Never(table, extension_id, extension_version) == FALSE

is_uploaded_to_s3(table, extension_id, extension_version) ==
    LET hits == {k \in DOMAIN table :
                    /\ table[k].extension_id = extension_id
                    /\ table[k].version = extension_version}
    IN IF hits # {}
       THEN table[CHOOSE k \in hits : TRUE].uploaded_to_s3
       ELSE FALSE

\* The UPDATE with the version left out of its WHERE clause.
set_uploaded_to_s3_AnyVersion(table, extension_id, extension_version) ==
    [k \in DOMAIN table |->
        IF table[k].extension_id = extension_id
        THEN [table[k] EXCEPT !.uploaded_to_s3 = TRUE]
        ELSE table[k]]

\* UPDATE releases SET uploaded_to_s3 = TRUE WHERE extension_id = ... AND
\* version = ... (upload_extension_to_s3, lines 52-60).
set_uploaded_to_s3(table, extension_id, extension_version) ==
    [k \in DOMAIN table |->
        IF /\ table[k].extension_id = extension_id
           /\ table[k].version = extension_version
        THEN [table[k] EXCEPT !.uploaded_to_s3 = TRUE]
        ELSE table[k]]

\* The failure forgotten: nothing is recorded for the retry pass.
record_failure_Forgets(failed, row) == failed

\* failed_extensions.append(...) (lines 116-119).
record_failure(failed, row) == Append(failed, row)

UpVersions == {"1", "2"}
CandKeys == ExtIds \X UpVersions
CandKey(row) == <<row.extension_id, row.version>>

\* The store after the catalog of both extensions was fetched and persisted.
SeedCatalog == Catalog([e \in ExtIds |-> <<"2", "1">>])

\* The frames the callers of upsert_releases pass: rows produced by the
\* extraction, at most MaxUpsert of them.
ExtractedReleaseRows ==
    {DataFrameRow(ReleaseRecord(e, RawRelease(v, "validated", "2024-12-01T00:00:00Z"))) :
        e \in ExtIds, v \in UpVersions}

UpsertFrames == SeqsUpTo(ExtractedReleaseRows, MaxUpsert)

\* select_extensions / select_publishers / the releases rows, as frames.
ExtensionsFrame(table) ==
    LET ids == DOMAIN table
        row(e) == [extension_id |-> e, extension_name |-> table[e].extension_name,
                   publisher_id |-> table[e].publisher_id]
    IN (IF "a" \in ids THEN <<row("a")>> ELSE <<>>)
       \o (IF "b" \in ids THEN <<row("b")>> ELSE <<>>)

PublishersFrame(table) ==
    IF "p1" \in DOMAIN table
    THEN <<[publisher_id |-> "p1", publisher_name |-> table["p1"].publisher_name]>>
    ELSE <<>>

PersistedReleaseRows(table) ==
    {[release_id |-> k, extension_id |-> table[k].extension_id,
      version |-> table[k].version] : k \in DOMAIN table}

\* The frames handed to upload_all_extensions_to_s3: persisted releases joined
\* with their extension and publisher, in any order, at most MaxCand rows.
CandidateFrames ==
    {combine_dataframes(rdf, ExtensionsFrame(db_extensions), PublishersFrame(db_publishers)) :
        rdf \in SeqsUpTo(PersistedReleaseRows(db_releases), MaxCand)}

(***************************************************************************)
(* The consistency validator: vscavator.validate_data_consistency with the *)
(* helpers of df.py, and the script validate_data.py.                      *)
(***************************************************************************)
\* The (publisher_name, extension_name, version) triples of the releases of
\* this model, and their object keys.
KeyTriples ==
    {<<PublisherName(e), ExtensionName(e), v>> : e \in ExtIds, v \in UpVersions}

ObjectKeys == {S3Key(t[1], t[2], t[3]) : t \in KeyTriples}

\* s3.get_all_object_keys: the keys of all objects of the bucket.
get_all_object_keys(keys) == keys

\* str.split(sep) for a one-character separator: the fields between the
\* separators, in order (one field more than there are separators).
RECURSIVE StrSplit(_, _, _)
StrSplit(cs, sep, field) ==
    IF cs = <<>> THEN <<field>>
    ELSE IF Head(cs) = sep
         THEN <<field>> \o StrSplit(Tail(cs), sep, <<>>)
         ELSE StrSplit(Tail(cs), sep, Append(field, Head(cs)))

StartsWith(cs, pat) ==
    /\ Len(pat) <= Len(cs)
    /\ SubSeq(cs, 1, Len(pat)) = pat

\* str.replace(pat, ""): every occurrence of pat removed, scanning from the
\* left.
RECURSIVE StrRemove(_, _)
StrRemove(cs, pat) ==
    IF cs = <<>> THEN <<>>
    ELSE IF StartsWith(cs, pat)
         THEN StrRemove(SubSeq(cs, Len(pat) + 1, Len(cs)), pat)
         ELSE <<Head(cs)>> \o StrRemove(Tail(cs), pat)

\* The parse with the suffix left on the last field.
ParseObjectKey_KeepsSuffix(object_key) ==
    LET fields == StrSplit(object_key, "/", <<>>)
    IN [publisher_name |-> Join(fields[2]),
        extension_name |-> Join(fields[3]),
        version |-> Join(fields[4])]

\* One parsed key (df.py lines 37-43): fields[1], fields[2] and fields[3] of
\* object_key.split("/") (Python counts from 0), ".vsix" removed from the
\* last.
ParseObjectKey(object_key) ==
    LET fields == StrSplit(object_key, "/", <<>>)
    IN [publisher_name |-> Join(fields[2]),
        extension_name |-> Join(fields[3]),
        version |-> Join(StrRemove(fields[4], Chars(".vsix")))]

\* df.object_keys_to_dataframe: pd.DataFrame(list of dicts).  Of an empty list
\* the frame has no columns.
object_keys_to_dataframe(object_keys) ==
    [columns |-> IF object_keys = {} THEN {}
                 ELSE {"publisher_name", "extension_name", "version"},
     rows |-> {ParseObjectKey(k) : k \in object_keys}]

\* df.verified_uploaded_to_s3: not frame.loc[three column comparisons].empty;
\* selecting a column the frame does not have raises KeyError.
verified_uploaded_to_s3(object_keys_df, publisher_name, extension_name, version) ==
    [raised |-> "publisher_name" \notin object_keys_df.columns,
     val |-> \E r \in object_keys_df.rows :
                 /\ r.publisher_name = publisher_name
                 /\ r.extension_name = extension_name
                 /\ r.version = version]

\* The order in which the releases table is read.
ReleaseIdOrder == <<"a-1", "a-2", "b-1", "b-2">>

\* db.select_releases: all rows of the releases table, with the flag.
select_releases(table) ==
    LET row(k) == [release_id |-> k, extension_id |-> table[k].extension_id,
                   version |-> table[k].version,
                   uploaded_to_s3 |-> table[k].uploaded_to_s3]
    IN [i \in 1..Len(SelectSeq(ReleaseIdOrder, LAMBDA k : k \in DOMAIN table)) |->
           row(SelectSeq(ReleaseIdOrder, LAMBDA k : k \in DOMAIN table)[i])]

\* The loop reporting one direction only: a flag without its object.
RECURSIVE VD_Loop_FlagOnly(_, _, _, _)
VD_Loop_FlagOnly(joined, object_keys_df, i, out) ==
    IF i > Len(joined) THEN [raised |-> FALSE, discrepancies |-> out]
    ELSE LET row == joined[i]
             s3_uploaded_to_s3 ==
                 verified_uploaded_to_s3(object_keys_df, row.publisher_name,
                                         row.extension_name, row.version)
         IN IF s3_uploaded_to_s3.raised
            THEN [raised |-> TRUE, discrepancies |-> out]
            ELSE VD_Loop_FlagOnly(joined, object_keys_df, i + 1,
                     IF row.uploaded_to_s3 /\ ~s3_uploaded_to_s3.val
                     THEN Append(out, [publisher_name |-> row.publisher_name,
                                       extension_name |-> row.extension_name,
                                       version |-> row.version,
                                       db |-> row.uploaded_to_s3,
                                       s3 |-> s3_uploaded_to_s3.val])
                     ELSE out)

\* The loop of validate_data_consistency (lines 590-610) from row i on; out is
\* what was logged so far.  An exception ends the call.
RECURSIVE VD_Loop(_, _, _, _)
VD_Loop(joined, object_keys_df, i, out) ==
    IF i > Len(joined) THEN [raised |-> FALSE, discrepancies |-> out]
    ELSE LET row == joined[i]
             s3_uploaded_to_s3 ==
                 verified_uploaded_to_s3(object_keys_df, row.publisher_name,
                                         row.extension_name, row.version)
         IN IF s3_uploaded_to_s3.raised
            THEN [raised |-> TRUE, discrepancies |-> out]
            ELSE VD_Loop(joined, object_keys_df, i + 1,
                     IF row.uploaded_to_s3 # s3_uploaded_to_s3.val
                     THEN Append(out, [publisher_name |-> row.publisher_name,
                                       extension_name |-> row.extension_name,
                                       version |-> row.version,
                                       db |-> row.uploaded_to_s3,
                                       s3 |-> s3_uploaded_to_s3.val])
                     ELSE out)

\* The validator as a repairer: it writes the flags it finds wrong.
validate_data_consistency_Repairs(releases, extensions_table, publishers_table, keys) ==
    LET res == VD_Loop(combine_dataframes(select_releases(releases),
                                          ExtensionsFrame(extensions_table),
                                          PublishersFrame(publishers_table)),
                       object_keys_to_dataframe(get_all_object_keys(keys)), 1, <<>>)
    IN [raised |-> res.raised, discrepancies |-> res.discrepancies,
        releases |-> [k \in DOMAIN releases |->
                         [releases[k] EXCEPT !.uploaded_to_s3 =
                             (\E d \in Range(res.discrepancies) :
                                  /\ d.version = releases[k].version
                                  /\ d.extension_name = ExtensionName(releases[k].extension_id))
                                 # @]],
        keys |-> keys]

\* vscavator.validate_data_consistency: what it logs, whether it raised, and
\* the releases table and the bucket after the call.
validate_data_consistency(releases, extensions_table, publishers_table, keys) ==
    LET res == VD_Loop(combine_dataframes(select_releases(releases),
                                          ExtensionsFrame(extensions_table),
                                          PublishersFrame(publishers_table)),
                       object_keys_to_dataframe(get_all_object_keys(keys)), 1, <<>>)
    IN [raised |-> res.raised, discrepancies |-> res.discrepancies,
        releases |-> releases, keys |-> keys]

\* validate_data.validate_data: its select_extensions reads extension_id and
\* extension_name only, so the second merge, on publisher_id, raises KeyError
\* before the loop.
validate_data(releases, extensions_table, publishers_table, keys) ==
    [raised |-> TRUE, discrepancies |-> <<>>, releases |-> releases, keys |-> keys]

InitUpload ==
    /\ XIdle
    /\ AppIdle
    /\ UpIdle
    /\ db_publishers = upsert_publishers(EmptyTable, extract_publisher_metadata(SeedCatalog))
    /\ db_extensions = upsert_extensions(EmptyTable, extract_extension_metadata(SeedCatalog))
    /\ db_releases = EmptyTable
    /\ s3_keys = {}
    /\ upstream = [e \in ExtIds |-> <<"2", "1">>]
    /\ pc = "idle"
    /\ page_number = 1
    /\ extensions = <<>>
    /\ extensions_df = <<>>
    /\ rel_i = 1
    /\ all_releases = <<>>
    /\ releases_df = <<>>
    /\ db0 = EmptyTable
    /\ requested = {}
    /\ probe = [status |-> "none", total |-> 0]
    /\ page_log = <<>>

\* upsert_releases called by the fetching script between two runs of the
\* uploading script.
U_UpsertReleases ==
    /\ upc = "idle"
    /\ ended = "none"
    /\ \E df \in UpsertFrames :
           LET res == upsert_releases(db_releases, db_extensions, df)
           IN /\ db_releases' = res.table
              /\ reupserted' =
                     (~res.raised /\ \E i \in 1..Len(df) :
                          /\ df[i].release_id \in DOMAIN db_releases
                          /\ db_releases[df[i].release_id].uploaded_to_s3)
    /\ UNCHANGED <<db_extensions, db_publishers, s3_keys>>
    /\ UNCHANGED <<upc, combined_df, up_i, unique_extensions, failed_extensions, cur,
                   attempts, put_log, first_ok, perm_failed, ended, rerun>>
    /\ UNCHANGED <<appvars, xvars, mainvars>>

CallStartsWith(first, frame, again) ==
    /\ upc' = first
    /\ combined_df' = frame
    /\ up_i' = 1
    /\ unique_extensions' = {}
    /\ failed_extensions' = <<>>
    /\ cur' = <<>>
    /\ attempts' = [c \in CandKeys |-> 0]
    /\ put_log' = {}
    /\ first_ok' = {}
    /\ perm_failed' = {}
    /\ ended' = "none"
    /\ rerun' = again
    /\ reupserted' = FALSE
    /\ xout' = [fn |-> "none"]
    /\ UNCHANGED <<appvars, xin, storevars, mainvars>>

\* The uploading process is gone, and what it held with it.
UploaderLocalsGone ==
    /\ upc' = "idle"
    /\ combined_df' = <<>>
    /\ up_i' = 1
    /\ unique_extensions' = {}
    /\ failed_extensions' = <<>>
    /\ cur' = <<>>
    /\ attempts' = EmptyTable
    /\ put_log' = {}
    /\ first_ok' = {}
    /\ perm_failed' = {}
    /\ ended' = "none"
    /\ rerun' = FALSE
    /\ reupserted' = FALSE

\* upload_all_extensions_to_s3 is called with a frame of candidates.
U_Start ==
    /\ upc = "idle"
    /\ ended = "none"
    /\ \E frame \in CandidateFrames : CallStartsWith("first_pass", frame, FALSE)

\* It is called again with the candidates of the call before, which returned
\* with no candidate left failing.
U_StartAgain ==
    /\ upc = "idle"
    /\ ended = "returned"
    /\ perm_failed = {}
    /\ combined_df # <<>>
    /\ CallStartsWith("first_pass", combined_df, TRUE)

\* First pass, lines 87-89: the extension was seen in an earlier row.
U_SkipSeen ==
    /\ upc = "first_pass"
    /\ up_i <= Len(combined_df)
    /\ combined_df[up_i].extension_id \in unique_extensions
    /\ up_i' = up_i + 1
    /\ UNCHANGED <<upc, combined_df, unique_extensions, failed_extensions, cur,
                   attempts, put_log, first_ok, perm_failed, ended, rerun, reupserted>>
    /\ UNCHANGED <<appvars, xvars, storevars, mainvars>>

\* First pass, lines 96-103: the release is flagged uploaded.
U_SkipUploaded ==
    /\ upc = "first_pass"
    /\ up_i <= Len(combined_df)
    /\ LET row == combined_df[up_i]
       IN /\ row.extension_id \notin unique_extensions
          /\ is_uploaded_to_s3(db_releases, row.extension_id, row.version)
          /\ unique_extensions' = unique_extensions \cup {row.extension_id}
    /\ up_i' = up_i + 1
    /\ UNCHANGED <<upc, combined_df, failed_extensions, cur,
                   attempts, put_log, first_ok, perm_failed, ended, rerun, reupserted>>
    /\ UNCHANGED <<appvars, xvars, storevars, mainvars>>

\* First pass, upload_extension_to_s3 answered non-200: False is returned and
\* the candidate is recorded.
U_DownloadFails ==
    /\ upc = "first_pass"
    /\ up_i <= Len(combined_df)
    /\ LET row == combined_df[up_i]
       IN /\ row.extension_id \notin unique_extensions
          /\ ~is_uploaded_to_s3(db_releases, row.extension_id, row.version)
          /\ unique_extensions' = unique_extensions \cup {row.extension_id}
          /\ attempts' = [attempts EXCEPT ![CandKey(row)] = @ + 1]
          /\ failed_extensions' = record_failure(failed_extensions, row)
    /\ up_i' = up_i + 1
    /\ UNCHANGED <<upc, combined_df, cur, put_log, first_ok, perm_failed, ended,
                   rerun, reupserted>>
    /\ UNCHANGED <<appvars, xvars, storevars, mainvars>>

\* First pass, upload_extension_to_s3 answered 200: the object is put
\* (lines 43-50); the flag is written next.
U_DownloadPut ==
    /\ upc = "first_pass"
    /\ up_i <= Len(combined_df)
    /\ LET row == combined_df[up_i]
           s3_key == S3Key(row.publisher_name, row.extension_name, row.version)
       IN /\ row.extension_id \notin unique_extensions
          /\ ~is_uploaded_to_s3(db_releases, row.extension_id, row.version)
          /\ unique_extensions' = unique_extensions \cup {row.extension_id}
          /\ attempts' = [attempts EXCEPT ![CandKey(row)] = @ + 1]
          /\ s3_keys' = s3_keys \cup {s3_key}
          /\ put_log' = put_log \cup {s3_key}
          /\ cur' = <<row>>
    /\ upc' = "first_flag"
    /\ UNCHANGED <<db_extensions, db_publishers, db_releases>>
    /\ UNCHANGED <<combined_df, up_i, failed_extensions, first_ok, perm_failed, ended,
                   rerun, reupserted>>
    /\ UNCHANGED <<appvars, xvars, mainvars>>

\* upload_extension_to_s3, lines 52-62: the UPDATE is committed and True is
\* returned to the loop that called.
U_FlagWrite ==
    /\ upc \in {"first_flag", "retry_flag", "v_flag"}
    /\ db_releases' = set_uploaded_to_s3(db_releases, cur[1].extension_id, cur[1].version)
    /\ IF upc = "retry_flag"
       THEN /\ upc' = "retry"
            /\ UNCHANGED first_ok
       ELSE /\ upc' = (IF upc = "first_flag" THEN "first_pass" ELSE "v_pass")
            /\ first_ok' = first_ok \cup {CandKey(cur[1])}
    /\ up_i' = up_i + 1
    /\ cur' = <<>>
    /\ UNCHANGED <<db_extensions, db_publishers, s3_keys>>
    /\ UNCHANGED <<combined_df, unique_extensions, failed_extensions, attempts, put_log,
                   perm_failed, ended, rerun, reupserted>>
    /\ UNCHANGED <<appvars, xvars, mainvars>>

\* Line 121: the first pass is over; the retry pass starts when a candidate
\* failed, otherwise the call returns.
U_FirstPassDone ==
    /\ upc = "first_pass"
    /\ up_i > Len(combined_df)
    /\ IF Len(failed_extensions) > 0
       THEN /\ upc' = "retry"
            /\ up_i' = 1
            /\ UNCHANGED ended
       ELSE /\ upc' = "idle"
            /\ ended' = "returned"
            /\ UNCHANGED up_i
    /\ UNCHANGED <<combined_df, unique_extensions, failed_extensions, cur, attempts,
                   put_log, first_ok, perm_failed, rerun, reupserted>>
    /\ UNCHANGED <<appvars, xvars, storevars, mainvars>>

\* Retry pass, lines 127-144: the download fails again and is logged.
U_RetryFails ==
    /\ upc = "retry"
    /\ up_i <= Len(failed_extensions)
    /\ LET row == failed_extensions[up_i]
       IN /\ attempts' = [attempts EXCEPT ![CandKey(row)] = @ + 1]
          /\ perm_failed' = perm_failed \cup {CandKey(row)}
    /\ up_i' = up_i + 1
    /\ UNCHANGED <<upc, combined_df, unique_extensions, failed_extensions, cur,
                   put_log, first_ok, ended, rerun, reupserted>>
    /\ UNCHANGED <<appvars, xvars, storevars, mainvars>>

\* Retry pass: the download answers 200 and the object is put.
U_RetryPut ==
    /\ upc = "retry"
    /\ up_i <= Len(failed_extensions)
    /\ LET row == failed_extensions[up_i]
           s3_key == S3Key(row.publisher_name, row.extension_name, row.version)
       IN /\ attempts' = [attempts EXCEPT ![CandKey(row)] = @ + 1]
          /\ s3_keys' = s3_keys \cup {s3_key}
          /\ put_log' = put_log \cup {s3_key}
          /\ cur' = <<row>>
    /\ upc' = "retry_flag"
    /\ UNCHANGED <<db_extensions, db_publishers, db_releases>>
    /\ UNCHANGED <<combined_df, up_i, unique_extensions, failed_extensions, first_ok,
                   perm_failed, ended, rerun, reupserted>>
    /\ UNCHANGED <<appvars, xvars, mainvars>>

\* The retry pass is over: the call returns.
U_RetryDone ==
    /\ upc = "retry"
    /\ up_i > Len(failed_extensions)
    /\ upc' = "idle"
    /\ ended' = "returned"
    /\ UNCHANGED <<combined_df, up_i, unique_extensions, failed_extensions, cur, attempts,
                   put_log, first_ok, perm_failed, rerun, reupserted>>
    /\ UNCHANGED <<appvars, xvars, storevars, mainvars>>

(***************************************************************************)
(* The uploading script of upload_releases.py: one pass over the latest    *)
(* release of every extension, the flag read from the selected frame, no   *)
(* second attempt.                                                         *)
(***************************************************************************)
\* string_to_array(version, '.')::int[] on the versions of this model.
VersionNumber(v) == IF v = "1" THEN 1 ELSE 2

\* util.select_latest_releases: for every extension the row of its highest
\* version, with the flag.
select_latest_releases(table) ==
    {[extension_id |-> table[k].extension_id,
      version |-> table[k].version,
      uploaded_to_s3 |-> table[k].uploaded_to_s3] :
        k \in {k1 \in DOMAIN table :
                  \A k2 \in DOMAIN table :
                      table[k2].extension_id = table[k1].extension_id
                          => VersionNumber(table[k2].version)
                                 <= VersionNumber(table[k1].version)}}

\* The frames upload_releases builds (lines 126-132); the query has no
\* ORDER BY, the rows come in any order.
LatestFrames ==
    LET rows == select_latest_releases(db_releases)
    IN {combine_dataframes(rdf, ExtensionsFrame(db_extensions),
                           PublishersFrame(db_publishers)) :
           rdf \in {q \in SeqsUpTo(rows, Cardinality(rows)) :
                      /\ Len(q) = Cardinality(rows)
                      /\ Range(q) = rows}}

V_Start ==
    /\ upc = "idle"
    /\ ended = "none"
    /\ \E frame \in LatestFrames : CallStartsWith("v_pass", frame, FALSE)

\* The script is run again after a run with no failure.
V_StartAgain ==
    /\ upc = "idle"
    /\ ended = "v_returned"
    /\ perm_failed = {}
    /\ combined_df # <<>>
    /\ \E frame \in LatestFrames : CallStartsWith("v_pass", frame, TRUE)

\* Lines 90-98: the selected row says uploaded.
V_SkipUploaded ==
    /\ upc = "v_pass"
    /\ up_i <= Len(combined_df)
    /\ combined_df[up_i].uploaded_to_s3
    /\ up_i' = up_i + 1
    /\ UNCHANGED <<upc, combined_df, unique_extensions, failed_extensions, cur,
                   attempts, put_log, first_ok, perm_failed, ended, rerun, reupserted>>
    /\ UNCHANGED <<appvars, xvars, storevars, mainvars>>

\* Lines 107-116: the download answered non-200, the failure is logged.
V_DownloadFails ==
    /\ upc = "v_pass"
    /\ up_i <= Len(combined_df)
    /\ LET row == combined_df[up_i]
       IN /\ ~row.uploaded_to_s3
          /\ attempts' = [attempts EXCEPT ![CandKey(row)] = @ + 1]
          /\ perm_failed' = perm_failed \cup {CandKey(row)}
    /\ up_i' = up_i + 1
    /\ UNCHANGED <<upc, combined_df, unique_extensions, failed_extensions, cur,
                   put_log, first_ok, ended, rerun, reupserted>>
    /\ UNCHANGED <<appvars, xvars, storevars, mainvars>>

\* The download answered 200 and the object is put; the flag is written next.
V_DownloadPut ==
    /\ upc = "v_pass"
    /\ up_i <= Len(combined_df)
    /\ LET row == combined_df[up_i]
           s3_key == S3Key(row.publisher_name, row.extension_name, row.version)
       IN /\ ~row.uploaded_to_s3
          /\ attempts' = [attempts EXCEPT ![CandKey(row)] = @ + 1]
          /\ s3_keys' = s3_keys \cup {s3_key}
          /\ put_log' = put_log \cup {s3_key}
          /\ cur' = <<row>>
    /\ upc' = "v_flag"
    /\ UNCHANGED <<db_extensions, db_publishers, db_releases>>
    /\ UNCHANGED <<combined_df, up_i, unique_extensions, failed_extensions, first_ok,
                   perm_failed, ended, rerun, reupserted>>
    /\ UNCHANGED <<appvars, xvars, mainvars>>

\* The loop is over.
V_Done ==
    /\ upc = "v_pass"
    /\ up_i > Len(combined_df)
    /\ upc' = "idle"
    /\ ended' = "v_returned"
    /\ UNCHANGED <<combined_df, up_i, unique_extensions, failed_extensions, cur, attempts,
                   put_log, first_ok, perm_failed, rerun, reupserted>>
    /\ UNCHANGED <<appvars, xvars, storevars, mainvars>>

\* The process dies during the call (a download times out and requests
\* raises, the put raises, the process is killed between the put and the
\* UPDATE): the locals of the call are gone, the stores stay as they are.
U_Crash ==
    /\ upc # "idle"
    /\ UploaderLocalsGone
    /\ UNCHANGED <<appvars, xvars, storevars, mainvars>>

\* The uploading script exits after a call that returned
\* (upload_releases.main, lines after upload_all_extensions_to_s3).
U_Exit ==
    /\ upc = "idle"
    /\ ended \in {"returned", "v_returned"}
    /\ UploaderLocalsGone
    /\ xout' = [fn |-> "none"]
    /\ UNCHANGED <<appvars, xin, storevars, mainvars>>

\* vscavator.main, lines 717-718: upload_all_extensions_to_s3 has returned
\* and validate_data_consistency is called on the store and the bucket.
U_Validate ==
    /\ upc = "idle"
    /\ ended = "returned"
    /\ xout.fn = "none"
    /\ LET res == validate_data_consistency(db_releases, db_extensions, db_publishers,
                                            s3_keys)
       IN /\ xout' = [fn |-> "vscavator.validate_data_consistency",
                      raised |-> res.raised, val |-> res.discrepancies]
          /\ db_releases' = res.releases
          /\ s3_keys' = res.keys
    /\ UNCHANGED <<db_extensions, db_publishers>>
    /\ UNCHANGED <<appvars, xin, mainvars, upvars>>

NextUpload ==
    \/ U_UpsertReleases
    \/ U_Start
    \/ U_StartAgain
    \/ U_SkipSeen
    \/ U_SkipUploaded
    \/ U_DownloadFails
    \/ U_DownloadPut
    \/ U_FlagWrite
    \/ U_FirstPassDone
    \/ U_RetryFails
    \/ U_RetryPut
    \/ U_RetryDone
    \/ V_Start
    \/ V_StartAgain
    \/ V_SkipUploaded
    \/ V_DownloadFails
    \/ V_DownloadPut
    \/ V_Done
    \/ U_Crash
    \/ U_Exit
    \/ U_Validate

SpecUpload == InitUpload /\ [][NextUpload]_vars

(***************************************************************************)
(* Claims about the uploaded_to_s3 flag and the uploader (SpecUpload).     *)
(***************************************************************************)
\* The persisted flag of the release (extension, version) is true.
Flagged(c) ==
    \E k \in DOMAIN db_releases :
        /\ db_releases[k].extension_id = c[1]
        /\ db_releases[k].version = c[2]
        /\ db_releases[k].uploaded_to_s3

\* The object key of a persisted release, its names read from the store.
KeyOfRelease(k) ==
    LET e == db_extensions[db_releases[k].extension_id]
    IN S3Key(db_publishers[e.publisher_id].publisher_name, e.extension_name,
             db_releases[k].version)

\* C7: in every state reached by runs of the uploader (no object is ever
\* removed), a release whose persisted uploaded_to_s3 flag is true has its
\* object key extensions/{publisher_name}/{extension_name}/{version}.vsix in
\* the object store; a candidate whose attempts all failed has its flag false.
C7_FlagImpliesObject ==
    /\ \A k \in DOMAIN db_releases :
           db_releases[k].uploaded_to_s3 => KeyOfRelease(k) \in s3_keys
    /\ \A c \in perm_failed : ~Flagged(c)

\* A call has flagged one release of an extension whose other persisted
\* release has neither flag nor object, and another candidate failed.
C7_Witness ==
    /\ \E k1, k2 \in DOMAIN db_releases :
           /\ db_releases[k1].extension_id = db_releases[k2].extension_id
           /\ db_releases[k1].uploaded_to_s3
           /\ KeyOfRelease(k1) \in put_log
           /\ ~db_releases[k2].uploaded_to_s3
           /\ KeyOfRelease(k2) \notin s3_keys
    /\ perm_failed # {}

\* C8: no step changes a persisted release's uploaded_to_s3 flag from true to
\* false or removes the row; upsert_releases on a persisted release_id leaves
\* the row's flag as it was.
C8_FlagNeverReset ==
    [][/\ \A k \in DOMAIN db_releases :
              db_releases[k].uploaded_to_s3
                  => (k \in DOMAIN db_releases' /\ db_releases'[k].uploaded_to_s3)
       /\ (upc = "idle" /\ upc' = "idle" /\ ended = "none" /\ ended' = "none")
              => \A k \in DOMAIN db_releases :
                     /\ k \in DOMAIN db_releases'
                     /\ db_releases'[k].uploaded_to_s3 = db_releases[k].uploaded_to_s3]_vars

\* upsert_releases has just re-observed a release that is flagged uploaded.
C8_Witness ==
    /\ reupserted
    /\ \E k \in DOMAIN db_releases : db_releases[k].uploaded_to_s3

\* C9: no download request and no put is issued for a candidate whose
\* persisted flag is true, and a second run over the same candidates after a
\* run in which every upload succeeded issues no download and no put.
C9_NoRepeatUpload ==
    /\ [][\A c \in DOMAIN attempts \cap DOMAIN attempts' :
              attempts'[c] > attempts[c] => ~Flagged(c)]_vars
    /\ [][put_log' # put_log /\ put_log' # {} => \E c \in DOMAIN attempts \cap DOMAIN attempts' :
              attempts'[c] > attempts[c] /\ ~Flagged(c)]_vars
    /\ [](rerun => (put_log = {} /\ \A c \in DOMAIN attempts : attempts[c] = 0))

\* The second run has returned, and it passed over a flagged candidate.
C9_Witness ==
    /\ rerun
    /\ ended \in {"returned", "v_returned"}
    /\ \E i \in 1..Len(combined_df) : Flagged(CandKey(combined_df[i]))

\* The candidates of the current call whose first attempt failed.
FirstFailed ==
    {c \in DOMAIN attempts :
        /\ attempts[c] >= 1
        /\ c \notin first_ok
        /\ ~(upc \in {"first_flag", "v_flag"} /\ CandKey(cur[1]) = c)}

InS3Call == upc \in {"first_pass", "first_flag", "retry", "retry_flag"} \/ ended = "returned"

\* C10: in one call of s3.upload_all_extensions_to_s3 a candidate whose first
\* attempt failed keeps its flag false and is attempted exactly once more, after
\* the first pass has finished; nothing is attempted a third time, a candidate
\* whose first attempt succeeded is not attempted again, and a candidate still
\* failing after the retry ends the call with its flag false.
C10_RetryOnce ==
    InS3Call =>
        /\ \A c \in DOMAIN attempts : attempts[c] <= 2
        /\ \A c \in first_ok : attempts[c] = 1
        /\ \A c \in FirstFailed : attempts[c] = 1 => ~Flagged(c)
        /\ upc \in {"first_pass", "first_flag"} => \A c \in DOMAIN attempts : attempts[c] <= 1
        /\ ended = "returned" => \A c \in FirstFailed : attempts[c] = 2
        /\ \A c \in perm_failed : attempts[c] = 2 /\ ~Flagged(c)

\* A call has returned in which one candidate succeeded at once, and another
\* failed twice.
C10_Witness ==
    /\ ended = "returned"
    /\ first_ok # {}
    /\ perm_failed # {}

\* A call has returned in which the retry of a failed candidate succeeded.
C10_WitnessRetryOk ==
    /\ ended = "returned"
    /\ \E c \in FirstFailed : attempts[c] = 2 /\ Flagged(c)

\* The releases tables over the releases of this model.
ReleaseTableOf(present, flagged) ==
    [k \in {ReleaseId(c[1], c[2]) : c \in present} |->
        LET c == CHOOSE c1 \in present : ReleaseId(c1[1], c1[2]) = k
        IN [extension_id |-> c[1], version |-> c[2], uploaded_to_s3 |-> c \in flagged]]

ReleaseTables ==
    {ReleaseTableOf(present, flagged) :
        present \in SUBSET CandKeys, flagged \in SUBSET CandKeys}

MainLocalsIdle ==
    /\ pc = "idle"
    /\ page_number = 1
    /\ extensions = <<>>
    /\ extensions_df = <<>>
    /\ rel_i = 1
    /\ all_releases = <<>>
    /\ releases_df = <<>>
    /\ db0 = EmptyTable
    /\ requested = {}
    /\ probe = [status |-> "none", total |-> 0]
    /\ page_log = <<>>

\* Any releases table and any bucket: objects are put by the uploader and
\* removed or added by whoever administers the bucket.
InitValidate ==
    /\ xin = [kind |-> "validate"]
    /\ xout = [fn |-> "none"]
    /\ db_publishers = upsert_publishers(EmptyTable, extract_publisher_metadata(SeedCatalog))
    /\ db_extensions = upsert_extensions(EmptyTable, extract_extension_metadata(SeedCatalog))
    /\ db_releases \in ReleaseTables
    /\ s3_keys \in SUBSET ObjectKeys
    /\ upstream = [e \in ExtIds |-> <<"2", "1">>]
    /\ MainLocalsIdle
    /\ UpIdle
    /\ connections = <<>>

ValidatorCalled(fn, res) ==
    /\ xout.fn = "none"
    /\ xout' = [fn |-> fn, raised |-> res.raised, val |-> res.discrepancies]
    /\ db_releases' = res.releases
    /\ s3_keys' = res.keys
    /\ UNCHANGED <<appvars, xin, db_extensions, db_publishers, mainvars, upvars>>

ValidateDataConsistency ==
    /\ xin.kind = "validate"
    /\ ValidatorCalled("vscavator.validate_data_consistency",
        validate_data_consistency(db_releases, db_extensions, db_publishers, s3_keys))

ValidateData ==
    /\ xin.kind = "validate"
    /\ ValidatorCalled("validate_data.validate_data",
        validate_data(db_releases, db_extensions, db_publishers, s3_keys))

NextValidate ==
    \/ ValidateDataConsistency
    \/ ValidateData

SpecValidate == InitValidate /\ [][NextValidate]_vars

\* The joined rows the validator iterates over, in the state at hand.
JoinedRows ==
    combine_dataframes(select_releases(db_releases), ExtensionsFrame(db_extensions),
                       PublishersFrame(db_publishers))

\* The row's flag differs from the presence of its triple among the parsed keys.
Mismatch(row) ==
    row.uploaded_to_s3 #
        ([publisher_name |-> row.publisher_name, extension_name |-> row.extension_name,
          version |-> row.version] \in {ParseObjectKey(k) : k \in s3_keys})

\* C11: validate_data_consistency emits a discrepancy for a joined row if and
\* only if the row's persisted flag differs from the membership of its
\* (publisher_name, extension_name, version) in the parsed keys: exactly one
\* per mismatching row, in both directions, and none for a matching row.
C11_DiscrepancyIffMismatch ==
    xout.fn = "vscavator.validate_data_consistency" =>
        /\ \A i \in 1..Len(JoinedRows) :
               LET row == JoinedRows[i]
                   emitted == {j \in 1..Len(xout.val) :
                                  /\ xout.val[j].publisher_name = row.publisher_name
                                  /\ xout.val[j].extension_name = row.extension_name
                                  /\ xout.val[j].version = row.version}
               IN Cardinality(emitted) = IF Mismatch(row) THEN 1 ELSE 0
        /\ Len(xout.val) = Cardinality({i \in 1..Len(JoinedRows) : Mismatch(JoinedRows[i])})

\* C12: a call of the validator leaves every persisted row, every flag and
\* the set of object keys as they were, with or without discrepancies.
C12_ValidatorReadOnly ==
    [][/\ db_extensions' = db_extensions
       /\ db_publishers' = db_publishers
       /\ db_releases' = db_releases
       /\ s3_keys' = s3_keys]_vars

\* The validator has returned with discrepancies in both directions.
C12_Witness ==
    /\ xout.fn = "vscavator.validate_data_consistency"
    /\ ~xout.raised
    /\ \E d1, d2 \in Range(xout.val) : d1.db /\ ~d1.s3 /\ ~d2.db /\ d2.s3

(***************************************************************************)
(* Claims about the page count (SpecExtract).                              *)
(***************************************************************************)
\* C13: fetch_extensions.calculate_number_of_extension_pages(n, page_size)
\* is n // page_size + 1 for n >= 0 and page_size >= 1, page_size 100 when
\* omitted: 0 -> 1, 10 -> 1, 100 -> 2, 110 -> 2, 50000 -> 501; for an exact
\* multiple it is one more than the number of pages that hold a record.
C13_PageCount ==
    xout.fn = "fetch_extensions.calculate_number_of_extension_pages" =>
        LET n == xin.val.n
            ps == xin.val.page_size
            r == xout.val
        IN /\ r >= 1
           /\ (r - 1) * ps <= n
           /\ n < r * ps
           /\ n % ps = 0 => (r - 1) * ps = n
           /\ ~xin.val.given =>
                  /\ n = 0 => r = 1
                  /\ n = 10 => r = 1
                  /\ n = 100 => r = 2
                  /\ n = 110 => r = 2
                  /\ n = 50000 => r = 501

\* The function was applied to an exact multiple of the default page size.
C13_Witness ==
    /\ xout.fn = "fetch_extensions.calculate_number_of_extension_pages"
    /\ ~xin.val.given
    /\ xin.val.n = 50000
    /\ xout.val = 501

\* C14: vscavator.calculate_number_of_extension_pages(n) is n // 100 + 1 for
\* every n >= 0, as its tests assert: 0 -> 1, 10 -> 1, 100 -> 2, 110 -> 2,
\* 50000 -> 501.
C14_VscavatorPageCount ==
    xout.fn = "vscavator.calculate_number_of_extension_pages" =>
        xout.val = xin.val.n \div 100 + 1

(***************************************************************************)
(* Claims about the catalog crawl of vscavator.main (Spec).                *)
(***************************************************************************)
\* The page numbers of a log of page requests, in the order of the requests.
PagesOf(log) == [i \in 1..Len(log) |-> log[i].page]

\* The run is past get_all_extensions.
CrawlOver == pc \notin {"idle", "get_all_extensions"}

\* C15: in a run of vscavator.main whose probe reports T extensions, the
\* catalog pages requested are exactly 1 .. T // EXTENSIONS_PAGE_SIZE + 1,
\* each once, in ascending order.
C15_PagesMatchProbe ==
    (CrawlOver /\ probe.status = "200") =>
        PagesOf(page_log) = [i \in 1..(probe.total \div EXTENSIONS_PAGE_SIZE + 1) |-> i]

\* The requests of log for page p, as positions in the log.
RequestsOf(log, p) == {i \in 1..Len(log) : log[i].page = p}

FirstRequestOf(log, p) == CHOOSE i \in RequestsOf(log, p) : \A j \in RequestsOf(log, p) : i <= j

\* C17: in the fetch loop over the catalog pages, a request that failed with
\* a non-200 answer in the first pass is requested exactly once more after
\* the pass, and a request that succeeded is not repeated (the loop over the
\* releases requests of get_all_releases is built the same way).
C17_BatchRetry ==
    CrawlOver =>
        \A p \in Range(PagesOf(page_log)) :
            Cardinality(RequestsOf(page_log, p)) =
                IF page_log[FirstRequestOf(page_log, p)].status = "200" THEN 1 ELSE 2

\* C20: a request that times out is treated as one answered non-200: the
\* fetch function returns its failure value and the run goes on with the
\* next request instead of terminating.
C20_TimeoutLikeNon200 ==
    [][(/\ Len(page_log') = Len(page_log) + 1
        /\ page_log'[Len(page_log')].status = "timeout")
           => (pc' # "idle" /\ extensions' = extensions)]_vars

(***************************************************************************)
(* SpecFetchExtensions: runs of fetch_extensions.fetch_extensions_and_     *)
(* publishers, one after the other.  The marketplace answers every request *)
(* as it likes: the catalog changes while it is being crawled.             *)
(***************************************************************************)
\* The total counts the probe can report to this script.
FE_ProbeTotals == {0, 2, 100, 250}

\* The record lists a page can carry: of the extensions the model follows,
\* those that sort onto the page at the time of the request.
PageAnswers ==
    {<<>>, SeedCatalog} \cup {<<CatalogEntry(e, <<"2", "1">>)>> : e \in ExtIds}

\* fetch_extensions.get_extensions: the records of a 200 answer, [] otherwise.
fetch_extensions_get_extensions(ok, records) == IF ok THEN records ELSE <<>>

\* The accumulator assigned instead of extended.
list_extend_Replaces(all_extensions, got) == got

\* all_extensions.extend(extensions) (line 151).
list_extend(all_extensions, got) == all_extensions \o got

\* util.clean_dataframe on the frames of this model: exact duplicate rows are
\* dropped (first kept); the strings carry no outer spaces and no date is
\* missing.
RECURSIVE clean_dataframe(_)
clean_dataframe(df) ==
    IF df = <<>> THEN <<>>
    ELSE LET rest == clean_dataframe(SubSeq(df, 1, Len(df) - 1))
             last == df[Len(df)]
         IN IF last \in Range(rest) THEN rest ELSE Append(rest, last)

\* The last page number of the run (line 414; the page size is defaulted).
FE_LastPageNumber ==
    fetch_extensions_calculate_number_of_extension_pages(probe.total,
        DEFAULT_EXTENSIONS_PAGE_SIZE)

InitFetchExtensions ==
    /\ XIdle
    /\ AppIdle
    /\ UpIdle
    /\ db_extensions = EmptyTable
    /\ db_publishers = EmptyTable
    /\ db_releases = EmptyTable
    /\ s3_keys = {}
    /\ upstream = [e \in ExtIds |-> <<"2", "1">>]
    /\ MainLocalsIdle

\* Lines 411-414: the probe and the number of pages.
FE_Start ==
    /\ pc = "idle"
    /\ pc' = "fe_get_all_extensions"
    /\ \E ok \in BOOLEAN, total_count \in FE_ProbeTotals :
           probe' = [status |-> IF ok THEN "200" ELSE "500",
                     total |-> get_total_number_of_extensions(ok, total_count)]
    /\ page_log' = <<>>
    /\ page_number' = 1
    /\ extensions' = <<>>
    /\ extensions_df' = <<>>
    /\ UNCHANGED <<upstream, rel_i, all_releases, releases_df, db0, requested>>
    /\ UNCHANGED <<appvars, xvars, storevars, upvars>>

\* One iteration of get_all_extensions' loop (lines 148-151); after the last
\* page the frame is extracted and cleaned (lines 417, 421).
FE_GetExtensionsPage ==
    /\ pc = "fe_get_all_extensions"
    /\ page_number <= FE_LastPageNumber
    /\ \E ok \in BOOLEAN, records \in PageAnswers :
           LET got == fetch_extensions_get_extensions(ok, records)
               all == list_extend(extensions, got)
           IN /\ ~ok => records = <<>>
              /\ extensions' = all
              /\ page_log' = Append(page_log, [page |-> page_number,
                                               status |-> IF ok THEN "200" ELSE "500",
                                               records |-> got])
              /\ page_number' = page_number + 1
              /\ IF page_number = FE_LastPageNumber
                 THEN /\ extensions_df' =
                             clean_dataframe(fetch_extensions_extract_extension_metadata(all))
                      /\ pc' = "fe_upsert_publishers"
                 ELSE UNCHANGED <<extensions_df, pc>>
    /\ UNCHANGED <<upstream, rel_i, all_releases, releases_df, db0, requested, probe>>
    /\ UNCHANGED <<appvars, xvars, storevars, upvars>>

\* Line 423.
FE_UpsertPublishers ==
    /\ pc = "fe_upsert_publishers"
    /\ db_publishers' = upsert_publishers(db_publishers,
                            clean_dataframe(extract_publisher_metadata(extensions)))
    /\ pc' = "fe_upsert_extensions"
    /\ UNCHANGED <<db_extensions, db_releases, s3_keys>>
    /\ UNCHANGED <<upstream, page_number, extensions, extensions_df, rel_i, all_releases,
                   releases_df, db0, requested, probe, page_log>>
    /\ UNCHANGED <<appvars, xvars, upvars>>

\* Lines 424-426: the extensions are upserted and the script ends.
FE_UpsertExtensions ==
    /\ pc = "fe_upsert_extensions"
    /\ db_extensions' = upsert_extensions(db_extensions, extensions_df)
    /\ pc' = "idle"
    /\ RunLocalsReset
    /\ UNCHANGED <<db_publishers, db_releases, s3_keys>>
    /\ UNCHANGED <<upstream, probe, page_log>>
    /\ UNCHANGED <<appvars, xvars, upvars>>

\* A request gets no answer within its timeout, or the database goes away:
\* the exception ends the script.
FE_Crash ==
    /\ pc # "idle"
    /\ pc' = "idle"
    /\ RunLocalsReset
    /\ UNCHANGED <<upstream, probe, page_log>>
    /\ UNCHANGED <<appvars, xvars, storevars, upvars>>

NextFetchExtensions ==
    \/ FE_Start
    \/ FE_GetExtensionsPage
    \/ FE_UpsertPublishers
    \/ FE_UpsertExtensions
    \/ FE_Crash

SpecFetchExtensions == InitFetchExtensions /\ [][NextFetchExtensions]_vars

(***************************************************************************)
(* Claims about the crawl of fetch_extensions.py (SpecFetchExtensions).    *)
(***************************************************************************)
FE_CrawlOver == pc \in {"fe_upsert_publishers", "fe_upsert_extensions"}

\* C16: the crawl stops at the first page that returns zero records: after a
\* page answered 200 with an empty list no page with a higher number is
\* requested, even if the last page number has not been reached.
C16_StopsAtEmptyPage ==
    \A i, j \in 1..Len(page_log) :
        (/\ page_log[i].status = "200"
         /\ page_log[i].records = <<>>
         /\ i < j)
            => page_log[j].page <= page_log[i].page

\* The records of the pages of a log that answered 200, in the order of the log.
RECURSIVE RecordsOf200(_)
RecordsOf200(log) ==
    IF log = <<>> THEN <<>>
    ELSE (IF Head(log).status = "200" THEN Head(log).records ELSE <<>>)
         \o RecordsOf200(Tail(log))

StatPositions(statistics, n) ==
    {i \in 1..Len(statistics) : statistics[i].statisticName = n}

Maximum(S) == CHOOSE x \in S : \A y \in S : y <= x
Minimum(S) == CHOOSE x \in S : \A y \in S : x <= y

\* C21: extract_extension_statistics returns a map whose keys are exactly
\* the nine allowlisted names; each key holds the value of the last input
\* entry with that name, or 0 when there is none; foreign names add no key
\* and change no value.
C21_StatisticsAllowlist ==
    xout.fn = "fetch_extensions.extract_extension_statistics" =>
        /\ DOMAIN xout.val = StatisticNames
        /\ Cardinality(StatisticNames) = 9
        /\ \A n \in StatisticNames :
              xout.val[n] =
                 IF StatPositions(xin.val, n) = {} THEN 0
                 ELSE xin.val[Maximum(StatPositions(xin.val, n))].value
        /\ xout.val = extract_extension_statistics(
                          SelectSeq(xin.val,
                                    LAMBDA st : st.statisticName \in StatisticNames))

\* A list where one allowlisted name occurs twice with different values,
\* a foreign name occurs, and another allowlisted name is absent.
C21_Witness ==
    /\ xout.fn = "fetch_extensions.extract_extension_statistics"
    /\ \E i, j \in 1..Len(xin.val) :
          /\ i < j
          /\ xin.val[i].statisticName = xin.val[j].statisticName
          /\ xin.val[i].statisticName \in StatisticNames
          /\ xin.val[i].value # xin.val[j].value
    /\ \E i \in 1..Len(xin.val) : xin.val[i].statisticName \notin StatisticNames
    /\ xout.val["downloadCount"] = 0

GitHubPositions(properties) ==
    {i \in 1..Len(properties) : properties[i].key = GITHUB_LINK_KEY}

\* C22: extract_extension_github_url returns the value of the first
\* property with the GitHub key, wherever it stands in the list, and the
\* empty string when no property has that key or the list is empty.
C22_FirstGitHubLink ==
    xout.fn = "fetch_extensions.extract_extension_github_url" =>
        xout.val =
            IF GitHubPositions(xin.val) = {} THEN ""
            ELSE xin.val[Minimum(GitHubPositions(xin.val))].value

\* Two GitHub properties with different values, the first of them not at
\* the head of the list.
C22_Witness ==
    /\ xout.fn = "fetch_extensions.extract_extension_github_url"
    /\ \E i, j \in GitHubPositions(xin.val) :
          /\ 1 < i
          /\ i < j
          /\ xin.val[i].value # xin.val[j].value

\* The two empty results: an empty list, and a list without the key.
C22_WitnessEmpty ==
    /\ xout.fn = "fetch_extensions.extract_extension_github_url"
    /\ xin.val # <<>>
    /\ GitHubPositions(xin.val) = {}
    /\ xout.val = ""


(***************************************************************************)
(* Batched writes.                                                         *)
(***************************************************************************)
\* The statements carry at most batch_size rows each and every row of the
\* input is in exactly one of them.
Chunked(statements, values, batch_size) ==
    /\ \A k \in 1..Len(statements) : Len(statements[k]) <= batch_size
    /\ \A r \in Range(values) :
          Cardinality({<<k, j>> \in (1..Len(statements)) \X (1..Len(values)) :
                          j <= Len(statements[k]) /\ statements[k][j] = r}) = 1

\* C25: upsert_releases writes its rows in chunks: every statement it issues
\* carries at most batch_size rows and every input row is sent in exactly
\* one statement, for any number of rows.
C25_ReleasesChunked ==
    xout.fn = "upsert_releases" =>
        Chunked(xout.val, xin.val.values, xin.val.batch_size)

\* The chunking the claim describes is the one of upsert_extensions.
ExtensionsChunked ==
    xout.fn = "fetch_extensions.upsert_extensions" =>
        Chunked(xout.val, xin.val.values, xin.val.batch_size)

(***************************************************************************)
(* Termination of vscavator.extract_release_metadata.                      *)
(***************************************************************************)
\* The number of iterations the inner loop made for each extension of the
\* dict, in order.
VS_Iterations(releases) ==
    VS_Outer(releases, 1, [list |-> <<>>, ids |-> {}, iters |-> <<>>]).iters

\* C30: vscavator.extract_release_metadata terminates on every finite input
\* although its inner loop appends to the list it iterates over: for each
\* extension the loop makes at most twice as many iterations as the raw
\* version list has entries, and at least one per entry.
C30_ExtractTerminates ==
    xout.fn = "vscavator.extract_release_metadata" =>
        /\ Len(VS_Iterations(xin.val)) = Len(xin.val)
        /\ \A k \in 1..Len(xin.val) :
               /\ VS_Iterations(xin.val)[k] <= 2 * Len(xin.val[k][2])
               /\ VS_Iterations(xin.val)[k] >= Len(xin.val[k][2])

\* An extension whose list grew while it was iterated: the loop visited the
\* raw entries and the records appended meanwhile; and one whose list held
\* a duplicate, for which nothing was appended.
C30_Witness ==
    /\ xout.fn = "vscavator.extract_release_metadata"
    /\ \E k \in 1..Len(xin.val) :
          /\ Len(xin.val[k][2]) = MaxRaw
          /\ VS_Iterations(xin.val)[k] = 2 * Len(xin.val[k][2])
    /\ \E k \in 1..Len(xin.val) :
          /\ xin.val[k][2] # <<>>
          /\ VS_Iterations(xin.val)[k] < 2 * Len(xin.val[k][2])


(***************************************************************************)
(* SpecApp: runs of app/vscavator.main.  setup_db (setup.py) creates the   *)
(* tables over a connection of its own, fetch_extensions_and_publishers    *)
(* (app/fetch_extensions.py) opens a second one, probes, crawls and        *)
(* upserts.  Here a failed request makes the function return False.        *)
(***************************************************************************)
\* util.connect_to_database called by `owner`: psycopg2.connect returns a
\* new open connection (or raises).
connect_to_database(conns, owner) == Append(conns, [owner |-> owner, open |-> TRUE])

\* connection.close() on the connection `owner` holds.
connection_close(conns, owner) ==
    [i \in 1..Len(conns) |->
        IF conns[i].owner = owner THEN [conns[i] EXCEPT !.open = FALSE] ELSE conns[i]]

\* setup.create_table: False without a connection, True after the commit.
create_table(has_connection) == has_connection

\* app/fetch_extensions.get_total_number_of_extensions: -1 after a non-200.
app_get_total_number_of_extensions(ok, total_count) == IF ok THEN total_count ELSE -1

InitApp ==
    /\ XIdle
    /\ AppIdle
    /\ UpIdle
    /\ db_extensions = EmptyTable
    /\ db_publishers = EmptyTable
    /\ db_releases = EmptyTable
    /\ s3_keys = {}
    /\ upstream = [e \in ExtIds |-> <<"2", "1">>]
    /\ MainLocalsIdle

\* main, lines 13-17: the process starts.
App_Start ==
    /\ pc = "idle"
    /\ pc' = "app_setup_db"
    /\ connections' = <<>>
    /\ probe' = [status |-> "none", total |-> 0]
    /\ page_log' = <<>>
    /\ UNCHANGED <<upstream, page_number, extensions, extensions_df, rel_i, all_releases,
                   releases_df, db0, requested>>
    /\ UNCHANGED <<xvars, storevars, upvars>>

\* setup_db: connect and create the five tables.  create_table answers True
\* on the connection just opened, so the branch that closes the connection
\* and returns False is not taken; the function returns True and leaves the
\* connection as it is.
App_SetupDb ==
    /\ pc = "app_setup_db"
    /\ LET opened == connect_to_database(connections, "setup_db")
           created == create_table(opened[Len(opened)].open)
       IN IF ~created
          THEN /\ connections' = connection_close(opened, "setup_db")
               /\ pc' = "app_returned"
          ELSE /\ connections' = opened
               /\ pc' = "app_connect"
    /\ UNCHANGED <<upstream, page_number, extensions, extensions_df, rel_i, all_releases,
                   releases_df, db0, requested, probe, page_log>>
    /\ UNCHANGED <<xvars, storevars, upvars>>

\* fetch_extensions_and_publishers, lines 441-445: its own connection.
App_Connect ==
    /\ pc = "app_connect"
    /\ connections' = connect_to_database(connections, "fetch_extensions_and_publishers")
    /\ pc' = "app_probe"
    /\ UNCHANGED <<upstream, page_number, extensions, extensions_df, rel_i, all_releases,
                   releases_df, db0, requested, probe, page_log>>
    /\ UNCHANGED <<xvars, storevars, upvars>>

\* Lines 448-456: the probe; after -1 the connection is closed, False is
\* returned and main returns.
App_Probe ==
    /\ pc = "app_probe"
    /\ \E ok \in BOOLEAN, total_count \in FE_ProbeTotals :
           LET num_total_extensions == app_get_total_number_of_extensions(ok, total_count)
           IN /\ probe' = [status |-> IF ok THEN "200" ELSE "500",
                           total |-> num_total_extensions]
              /\ IF num_total_extensions = -1
                 THEN /\ connections' =
                            connection_close(connections, "fetch_extensions_and_publishers")
                      /\ pc' = "app_returned"
                 ELSE /\ UNCHANGED connections
                      /\ pc' = "app_get_all_extensions"
    /\ page_number' = 1
    /\ extensions' = <<>>
    /\ extensions_df' = <<>>
    /\ UNCHANGED <<upstream, rel_i, all_releases, releases_df, db0, requested, page_log>>
    /\ UNCHANGED <<xvars, storevars, upvars>>

\* One iteration of get_all_extensions' loop (lines 141-151) and, after the
\* last page, the extraction (lines 470-476).  get_extensions returns None
\* after a non-200: get_all_extensions returns None, the connection is
\* closed (lines 462-468), False is returned and main returns.
App_GetExtensionsPage ==
    /\ pc = "app_get_all_extensions"
    /\ page_number <= FE_LastPageNumber
    /\ \E ok \in BOOLEAN, records \in PageAnswers :
           LET all == list_extend(extensions, records)
           IN /\ ~ok => records = <<>>
              /\ page_log' = Append(page_log, [page |-> page_number,
                                               status |-> IF ok THEN "200" ELSE "500",
                                               records |-> records])
              /\ page_number' = page_number + 1
              /\ IF ~ok
                 THEN /\ connections' =
                            connection_close(connections, "fetch_extensions_and_publishers")
                      /\ pc' = "app_returned"
                      /\ UNCHANGED <<extensions, extensions_df>>
                 ELSE /\ extensions' = all
                      /\ UNCHANGED connections
                      /\ IF page_number = FE_LastPageNumber
                         THEN /\ extensions_df' =
                                    clean_dataframe(
                                        fetch_extensions_extract_extension_metadata(all))
                              /\ pc' = "app_upsert"
                         ELSE UNCHANGED <<extensions_df, pc>>
    /\ UNCHANGED <<upstream, rel_i, all_releases, releases_df, db0, requested, probe>>
    /\ UNCHANGED <<xvars, storevars, upvars>>

\* Lines 477-483: the upserts (publishers, extensions; the statistics table
\* is not part of the model), connection.close(), return True; main logs
\* and returns.
App_Upsert ==
    /\ pc = "app_upsert"
    /\ db_publishers' = upsert_publishers(db_publishers,
                            clean_dataframe(extract_publisher_metadata(extensions)))
    /\ db_extensions' = upsert_extensions(db_extensions, extensions_df)
    /\ connections' = connection_close(connections, "fetch_extensions_and_publishers")
    /\ pc' = "app_returned"
    /\ UNCHANGED <<db_releases, s3_keys>>
    /\ UNCHANGED <<upstream, page_number, extensions, extensions_df, rel_i, all_releases,
                   releases_df, db0, requested, probe, page_log>>
    /\ UNCHANGED <<xvars, upvars>>

\* main has returned: the process exits, and with it whatever it held.
App_Exit ==
    /\ pc = "app_returned"
    /\ pc' = "idle"
    /\ connections' = <<>>
    /\ RunLocalsReset
    /\ UNCHANGED <<upstream, probe, page_log>>
    /\ UNCHANGED <<xvars, storevars, upvars>>

\* An exception leaves main (psycopg2.connect or a statement raises, a
\* request times out): the process dies.
App_Crash ==
    /\ pc \notin {"idle", "app_returned"}
    /\ pc' = "idle"
    /\ connections' = <<>>
    /\ RunLocalsReset
    /\ UNCHANGED <<upstream, probe, page_log>>
    /\ UNCHANGED <<xvars, storevars, upvars>>

NextApp ==
    \/ App_Start
    \/ App_SetupDb
    \/ App_Connect
    \/ App_Probe
    \/ App_GetExtensionsPage
    \/ App_Upsert
    \/ App_Exit
    \/ App_Crash

SpecApp == InitApp /\ [][NextApp]_vars

OpenConnections == {i \in 1..Len(connections) : connections[i].open}

\* C23: in a run of app/vscavator.main every database connection that was
\* opened (by setup_db, by fetch_extensions_and_publishers) is closed when
\* main returns, on the success path and on every early-return path.
C23_ConnectionsClosed ==
    pc = "app_returned" => OpenConnections = {}

\* The connection of fetch_extensions_and_publishers is closed on each of
\* its return paths.
FetchConnectionClosed ==
    pc = "app_returned" =>
        \A i \in OpenConnections : connections[i].owner = "setup_db"


(***************************************************************************)
(* Referential integrity of the store under vscavator.main.                *)
(***************************************************************************)
\* The persisted rows reference persisted parents.
StoreReferencesHold ==
    /\ \A e \in DOMAIN db_extensions :
           db_extensions[e].publisher_id \in DOMAIN db_publishers
    /\ \A k \in DOMAIN db_releases :
           db_releases[k].extension_id \in DOMAIN db_extensions

\* The rows of the extensions upsert about to be issued reference publishers
\* that are persisted.
ExtensionsUpsertReferencesHold ==
    pc = "upsert_extensions" =>
        \A i \in 1..Len(extensions_df) :
            extensions_df[i].publisher_id \in DOMAIN db_publishers

TripleOfRelease(k) ==
    LET e == db_extensions[db_releases[k].extension_id]
    IN [publisher_name |-> db_publishers[e.publisher_id].publisher_name,
        extension_name |-> e.extension_name,
        version |-> db_releases[k].version]

\* The object of release k is in the store and its flag is false: what a
\* crash between the put and the UPDATE leaves.
PutNotFlagged(k) ==
    /\ k \in DOMAIN db_releases
    /\ ~db_releases[k].uploaded_to_s3
    /\ KeyOfRelease(k) \in s3_keys

\* The validator has logged release k as flagged false with its object present.
ReportedPutNotFlagged(k) ==
    \E d \in Range(xout.val) :
        /\ d.publisher_name = TripleOfRelease(k).publisher_name
        /\ d.extension_name = TripleOfRelease(k).extension_name
        /\ d.version = TripleOfRelease(k).version
        /\ d.db = FALSE
        /\ d.s3 = TRUE

\* C26: a crash after the object put of a release and before its flag is
\* written leaves the object present and the flag false; that state stays as
\* long as nobody writes the flag or removes the object; and the validator
\* of the next run that completes emits a discrepancy for the release
\* (database flag false, object present).
C26_CrashSurfaced ==
    /\ [][\A c \in CandKeys, key \in ObjectKeys :
              (/\ upc \in {"first_flag", "retry_flag"}
               /\ CandKey(cur[1]) = c
               /\ key = S3Key(cur[1].publisher_name, cur[1].extension_name,
                              cur[1].version)
               /\ upc' = "idle"
               /\ ended' = "none")
                  => (~Flagged(c) /\ key \in s3_keys)']_vars
    /\ [][\A k \in DOMAIN db_releases :
              (PutNotFlagged(k)
                  /\ ~(k \in DOMAIN db_releases' /\ db_releases'[k].uploaded_to_s3))
                  => PutNotFlagged(k)']_vars
    /\ [](xout.fn = "vscavator.validate_data_consistency" =>
              \A k \in DOMAIN db_releases :
                  PutNotFlagged(k) => (~xout.raised /\ ReportedPutNotFlagged(k)))

\* The validator of a later call reports a release this call did not put:
\* its object was put by a call that never wrote the flag.
C26_Witness ==
    /\ xout.fn = "vscavator.validate_data_consistency"
    /\ put_log = {}
    /\ \E k \in DOMAIN db_releases : PutNotFlagged(k) /\ ReportedPutNotFlagged(k)

\* C29: the key the uploader writes parses back, in object_keys_to_dataframe,
\* to the (publisher_name, extension_name, version) it was built from; so
\* after a call in which every download and put succeeded the validator
\* emits no discrepancy for a release the call archived, and none at all
\* when no earlier call left an object without its flag.
C29_KeyRoundTrip ==
    /\ \A key \in s3_keys :
           \E k \in DOMAIN db_releases :
               /\ key = KeyOfRelease(k)
               /\ ParseObjectKey(key) = TripleOfRelease(k)
    /\ (/\ xout.fn = "vscavator.validate_data_consistency"
        /\ failed_extensions = <<>>
        /\ perm_failed = {})
           => /\ \A d \in Range(xout.val) :
                     S3Key(d.publisher_name, d.extension_name, d.version) \notin put_log
              /\ (\A k \in DOMAIN db_releases : ~PutNotFlagged(k)) => xout.val = <<>>

\* A call archived the latest release of both extensions, nothing failed,
\* and the validator went through all rows without a discrepancy.
C29_Witness ==
    /\ xout.fn = "vscavator.validate_data_consistency"
    /\ ~xout.raised
    /\ xout.val = <<>>
    /\ failed_extensions = <<>>
    /\ Cardinality(put_log) = 2
    /\ \E k \in DOMAIN db_releases :
           /\ ~db_releases[k].uploaded_to_s3
           /\ KeyOfRelease(k) \notin s3_keys


(***************************************************************************)
(* Steady state of the delta fetch (Spec).                                 *)
(***************************************************************************)
\* The table holds, for every extension of the catalog, the latest version
\* the catalog lists.
SyncedWith(table) ==
    \A e \in ExtIds :
        upstream[e] # <<>> =>
            /\ e \in DOMAIN table
            /\ table[e].latest_release_version = upstream[e][1]

\* The probe and every page request of the run were answered 200.
AllAnswered200 ==
    /\ probe.status = "200"
    /\ \A i \in 1..Len(page_log) : page_log[i].status = "200"

\* C28: when a run of vscavator.main completes with every request answered
\* 200 the store holds the latest version of every extension of the
\* catalog; it stays so while the catalog is unchanged; and a run started on
\* such a store issues no releases-detail request: every extension of the
\* batch is skipped.
C28_SteadyState ==
    /\ [][(pc = "validate" /\ pc' = "idle" /\ AllAnswered200)
              => SyncedWith(db_extensions)']_vars
    /\ [][(SyncedWith(db_extensions) /\ upstream' = upstream)
              => SyncedWith(db_extensions)']_vars
    /\ []((pc # "idle" /\ SyncedWith(db0)) =>
              /\ requested = {}
              /\ all_releases = <<>>)

\* A run over a catalog of two extensions, both persisted with their latest
\* version before it started, has gone through get_all_releases without a
\* request.
C28_Witness ==
    /\ pc = "upsert_publishers"
    /\ AllAnswered200
    /\ Len(extensions_df) = 2
    /\ SyncedWith(db0)
    /\ requested = {}

(***************************************************************************)
(* SpecResume: runs of vscavator.main on a store in which the releases of  *)
(* the catalog are persisted (the script fetch_releases.py writes the same *)
(* table) and none of them has been archived yet.                          *)
(***************************************************************************)
ResumeCatalogs == [ExtIds -> {<<"1">>, <<"2", "1">>}]

\* The releases frame fetch_releases extracts for the catalog `up`.
ReleasesFrameOf(up) ==
    fetch_releases_extract_release_metadata(
        <<<<"a", RawVersionsOf(up["a"])>>, <<"b", RawVersionsOf(up["b"])>>>>)

InitResume ==
    /\ XIdle
    /\ AppIdle
    /\ UpIdle
    /\ upstream \in ResumeCatalogs
    /\ db_publishers =
           upsert_publishers(EmptyTable, extract_publisher_metadata(Catalog(upstream)))
    /\ db_extensions =
           upsert_extensions(EmptyTable, extract_extension_metadata(Catalog(upstream)))
    /\ db_releases = UpsertReleaseRows(EmptyTable, ReleasesFrameOf(upstream))
    /\ s3_keys = {}
    /\ MainLocalsIdle

SpecResume == InitResume /\ [][Next]_vars

\* C27: a release that is the latest of its extension and whose persisted
\* uploaded_to_s3 flag is false is an upload candidate of the run, also when
\* the upstream latest version of its extension has not changed.
C27_UnarchivedIsCandidate ==
    pc = "upload" =>
        \A i \in 1..Len(extensions_df) :
            LET r == extensions_df[i]
                k == ReleaseId(r.extension_id, r.latest_release_version)
            IN (k \in DOMAIN db_releases /\ ~db_releases[k].uploaded_to_s3)
                   => \E j \in 1..Len(MainCandidates) :
                          /\ MainCandidates[j].extension_id = r.extension_id
                          /\ MainCandidates[j].version = r.latest_release_version

====
